---- MODULE Spec2Model ----
(***************************************************************************)
(* Model of the fund-transaction summary of KevinZjYang/stock              *)
(* (src/modules/fund_trans.py): the date keys, the stable sort, the        *)
(* replay of the sorted transactions into holdings and running totals, and *)
(* the per-fund cash-flow series built for the XIRR solver.                *)
(*                                                                         *)
(* Units.  Money amounts are integers.  Shares are counted in units of     *)
(* 0.0001 share, the closing threshold of the replay, so the threshold is  *)
(* 1 unit and every comparison of the code keeps its meaning.  Quotients   *)
(* (cost, realized profit, cash flows) are exact rationals <<n, d>>, d > 0,*)
(* in lowest terms: the model computes over the reals where the code       *)
(* computes over floats.                                                   *)
(***************************************************************************)
EXTENDS Integers, Sequences, FiniteSets, TLC

VARIABLES
    transactions,         \* the list handed to calculate_fund_summary
    pc,                   \* position in calculate_fund_summary
    sorted_transactions,  \* sorted(transactions, key=get_sort_key)
    idx,                  \* number of records of sorted_transactions replayed
    holdings,             \* formatted code -> [shares, cost]
    realized_profit,
    dividend_total,
    buy_count,
    sell_count,
    dividend_count,
    total_fee,
    fund_transactions,    \* formatted code -> the records replayed for it, in order
    prev,                 \* history: holdings and totals before the last replayed record
    fund_prices,          \* what fetch_fund_price_batch_sync(holding_codes) answered
    market_value,
    fund_performance,     \* the fund_performance list of the summary
    solver_input,         \* code -> the cash flows calculate_fund_xirr handed to xirr
    fetch_log,            \* the code lists fetch_fund_price_batch_sync was called with
    sold_funds_xirr,      \* the sold_funds_xirr entries of the summary
    sold_input,           \* sold code -> the cash flows calculate_fund_xirr handed to xirr
    xirr_results,         \* history: code -> the local xirr_result its entry was made from
    overall_xirr,         \* the local overall_xirr
    summary,              \* the dict calculate_fund_summary returned, <<>> before it returns
    xirr_frame,           \* a call of xirr: its position, arguments, locals and result
    simple_frame,         \* a call of calculate_simple_return: arguments and result
    version_frame,        \* a call of compare_versions: arguments and result
    fund_db,              \* the rows of the table fund_transactions, in id order
    last_id,              \* the last id the table gave out (AUTOINCREMENT)
    fund_cache,           \* the cache entry 'fund_summary': <<>> or [cache_date, data]
    today,                \* datetime.now().strftime('%Y-%m-%d'), as a day number
    request,              \* the request being served: its position and locals
    response,             \* the body of the answer, when the last request was GET /transactions
    price_notifications,  \* the rows of the table price_notifications, by id
    check_frame,          \* per thread: a call of check_price_notifications
    delivered             \* history: id -> the webhook messages delivered for it

vars == <<transactions, pc, sorted_transactions, idx, holdings, realized_profit,
          dividend_total, buy_count, sell_count, dividend_count, total_fee,
          fund_transactions, prev, fund_prices, market_value, fund_performance,
          solver_input, fetch_log, sold_funds_xirr, sold_input, xirr_results,
          overall_xirr, summary, xirr_frame, simple_frame, version_frame,
          fund_db, last_id, fund_cache, today, request, response,
          price_notifications, check_frame, delivered>>

\* the variables of the other modules
cacheVars == <<fund_db, last_id, fund_cache, today, request, response>>

notifyVars == <<price_notifications, check_frame, delivered>>

otherVars == <<version_frame, cacheVars, notifyVars>>

\* the variables of calculate_fund_summary
summaryVars ==
    <<transactions, pc, sorted_transactions, idx, holdings, realized_profit,
      dividend_total, buy_count, sell_count, dividend_count, total_fee,
      fund_transactions, prev, fund_prices, market_value, fund_performance,
      solver_input, fetch_log, sold_funds_xirr, sold_input, xirr_results,
      overall_xirr, summary>>

-----------------------------------------------------------------------------
(* Exact rational arithmetic. *)

Abs(n) == IF n < 0 THEN -n ELSE n

RECURSIVE Gcd(_, _)
Gcd(a, b) == IF b = 0 THEN a ELSE Gcd(b, a % b)

Norm(n, d) ==
    LET s == IF d < 0 THEN -1 ELSE 1
        g == Gcd(Abs(n), Abs(d))
    IN  <<(s * n) \div g, (s * d) \div g>>

Rat(n) == <<n, 1>>
RAdd(x, y) == Norm(x[1] * y[2] + y[1] * x[2], x[2] * y[2])
RSub(x, y) == Norm(x[1] * y[2] - y[1] * x[2], x[2] * y[2])
RMul(x, y) == Norm(x[1] * y[1], x[2] * y[2])
RDiv(x, y) == Norm(x[1] * y[2], x[2] * y[1])
RAbs(x)    == <<Abs(x[1]), x[2]>>
RLess(x, y) == x[1] * y[2] < y[1] * x[2]
RLeq(x, y)  == x[1] * y[2] <= y[1] * x[2]

-----------------------------------------------------------------------------
(* Whole numbers of any size, for the powers (1 + rate) ** -d of the        *)
(* solver: a natural number is the sequence of its digits in base Limb,     *)
(* least significant first, without leading zeros (<<>> is 0); an integer   *)
(* is a sign and a natural number.                                          *)

Limb == 10000

RECURSIVE NatOfInt(_)
NatOfInt(n) == IF n = 0 THEN <<>> ELSE <<n % Limb>> \o NatOfInt(n \div Limb)

RECURSIVE NatTrim(_)
NatTrim(a) ==
    IF a = <<>> THEN a
    ELSE IF a[Len(a)] = 0 THEN NatTrim(SubSeq(a, 1, Len(a) - 1)) ELSE a

RECURSIVE NatAddC(_, _, _)
NatAddC(a, b, carry) ==
    IF a = <<>> /\ b = <<>> THEN (IF carry = 0 THEN <<>> ELSE <<carry>>)
    ELSE LET x == (IF a = <<>> THEN 0 ELSE Head(a)) + (IF b = <<>> THEN 0 ELSE Head(b)) + carry
         IN  <<x % Limb>> \o NatAddC(IF a = <<>> THEN a ELSE Tail(a),
                                     IF b = <<>> THEN b ELSE Tail(b), x \div Limb)

NatAdd(a, b) == NatAddC(a, b, 0)

\* a - b, for a >= b
RECURSIVE NatSubB(_, _, _)
NatSubB(a, b, borrow) ==
    IF a = <<>> THEN <<>>
    ELSE LET x == Head(a) - (IF b = <<>> THEN 0 ELSE Head(b)) - borrow
         IN  <<(x + Limb) % Limb>> \o NatSubB(Tail(a), IF b = <<>> THEN b ELSE Tail(b),
                                              IF x < 0 THEN 1 ELSE 0)

NatSub(a, b) == NatTrim(NatSubB(a, b, 0))

RECURSIVE NatLessFrom(_, _, _)
NatLessFrom(a, b, k) ==
    k > 0 /\ (a[k] < b[k] \/ (a[k] = b[k] /\ NatLessFrom(a, b, k - 1)))

NatLess(a, b) == Len(a) < Len(b) \/ (Len(a) = Len(b) /\ NatLessFrom(a, b, Len(a)))

RECURSIVE NatMulLimb(_, _, _)
NatMulLimb(a, m, carry) ==
    IF a = <<>> THEN NatOfInt(carry)
    ELSE LET x == Head(a) * m + carry
         IN  <<x % Limb>> \o NatMulLimb(Tail(a), m, x \div Limb)

NatShift(a) == IF a = <<>> THEN a ELSE <<0>> \o a

RECURSIVE NatMul(_, _)
NatMul(a, b) ==
    IF a = <<>> \/ b = <<>> THEN <<>>
    ELSE NatAdd(NatTrim(NatMulLimb(a, Head(b), 0)), NatShift(NatMul(a, Tail(b))))

RECURSIVE NatPow(_, _)
NatPow(a, n) ==
    IF n = 0 THEN <<1>>
    ELSE LET half   == NatPow(a, n \div 2)
             square == NatMul(half, half)
         IN  IF n % 2 = 1 THEN NatMul(a, square) ELSE square

BigInt(neg, mag) == [neg |-> neg /\ mag # <<>>, mag |-> mag]
BigOfInt(n) == BigInt(n < 0, NatOfInt(Abs(n)))
BigNeg(x) == BigInt(~x.neg, x.mag)
BigAdd(x, y) ==
    IF x.neg = y.neg THEN BigInt(x.neg, NatAdd(x.mag, y.mag))
    ELSE IF NatLess(x.mag, y.mag) THEN BigInt(y.neg, NatSub(y.mag, x.mag))
    ELSE BigInt(x.neg, NatSub(x.mag, y.mag))
BigSub(x, y) == BigAdd(x, BigNeg(y))
BigMul(x, y) == BigInt(x.neg # y.neg, NatMul(x.mag, y.mag))
BigSign(x) == IF x.mag = <<>> THEN 0 ELSE IF x.neg THEN -1 ELSE 1
BigLess(x, y) == BigSign(BigSub(x, y)) < 0

\* a quotient of whole numbers, the denominator > 0
BigRat(num, den) == [num |-> num, den |-> den]

-----------------------------------------------------------------------------
(* Date strings.  A string is the sequence of its tokens: a run of digits  *)
(* is the number it reads as (>= 0), and the other characters are the      *)
(* tokens below.  The empty sequence is the empty or missing date.         *)

DASH  == "-"
SLASH == "/"
SPACE == " "
JUNK  == "x"

Tok(n)   == [num |-> TRUE, v |-> n, ch |-> ""]
Chr(c)   == [num |-> FALSE, v |-> 0, ch |-> c]
IsChr(t, c) == ~t.num /\ t.ch = c

\* str.split(' ')[0]: the tokens before the first space.
RECURSIVE BeforeSpace(_)
BeforeSpace(s) ==
    IF s = <<>> \/ IsChr(Head(s), SPACE) THEN <<>>
    ELSE <<Head(s)>> \o BeforeSpace(Tail(s))

\* str.replace('-', '/')
ReplaceDash(s) == [k \in DOMAIN s |-> IF IsChr(s[k], DASH) THEN Chr(SLASH) ELSE s[k]]

\* str.split(sep): the sequence of the parts between the separators.
RECURSIVE SplitOn(_, _, _)
SplitOn(s, sep, cur) ==
    IF s = <<>> THEN <<cur>>
    ELSE IF IsChr(Head(s), sep) THEN <<cur>> \o SplitOn(Tail(s), sep, <<>>)
    ELSE SplitOn(Tail(s), sep, Append(cur, Head(s)))

\* int(part) succeeds exactly on a part that is one run of digits.
IsInt(part) == Len(part) = 1 /\ part[1].num

INF == [inf |-> TRUE, v |-> 0]
Key(n) == [inf |-> FALSE, v |-> n]

\* get_sort_key of a date string: year*10000 + month*100 + day, or float('inf').
SortKeyOfDate(date_str) ==
    IF date_str = <<>> THEN INF
    ELSE LET parts == SplitOn(ReplaceDash(BeforeSpace(date_str)), SLASH, <<>>)
         IN  IF Len(parts) = 3 /\ \A k \in 1..3 : IsInt(parts[k])
             THEN Key(parts[1][1].v * 10000 + parts[2][1].v * 100 + parts[3][1].v)
             ELSE INF

get_sort_key(t) == SortKeyOfDate(t.date)

\* a <= b on sort keys (float('inf') is above every integer and equal to itself)
KeyLeq(a, b) == b.inf \/ (~a.inf /\ a.v <= b.v)

IsLeap(y) == (y % 4 = 0 /\ y % 100 # 0) \/ y % 400 = 0

DaysInMonth(y, m) ==
    IF m = 2 THEN (IF IsLeap(y) THEN 29 ELSE 28)
    ELSE IF m \in {4, 6, 9, 11} THEN 30 ELSE 31

NONE == [inf |-> TRUE, v |-> 0]

\* datetime.strptime(s, '%Y<sep>%m<sep>%d'): four-digit year, month 1..12, a day
\* of that month, and nothing else in the string.
Strptime(s, sep) ==
    LET parts == SplitOn(s, sep, <<>>)
    IN  IF /\ Len(parts) = 3
           /\ \A k \in 1..3 : IsInt(parts[k])
           /\ parts[1][1].v \in 1000..9999
           /\ parts[2][1].v \in 1..12
           /\ parts[3][1].v \in 1..DaysInMonth(parts[1][1].v, parts[2][1].v)
        THEN Key(parts[1][1].v * 10000 + parts[2][1].v * 100 + parts[3][1].v)
        ELSE NONE

HasChr(s, c) == \E k \in DOMAIN s : IsChr(s[k], c)

\* parse_date: the calendar date (as yyyymmdd) or None.
parse_date(date_str) ==
    IF date_str = <<>> THEN NONE
    ELSE LET s == BeforeSpace(date_str)
         IN  IF HasChr(s, DASH) THEN Strptime(s, DASH)
             ELSE IF HasChr(s, SLASH) THEN Strptime(s, SLASH)
             ELSE NONE

-----------------------------------------------------------------------------
(* sorted(transactions, key=get_sort_key): a stable sort. *)

\* x goes after every element whose key is <= its own.
RECURSIVE InsertStable(_, _)
InsertStable(x, s) ==
    IF s = <<>> THEN <<x>>
    ELSE IF KeyLeq(get_sort_key(Head(s)), get_sort_key(x))
         THEN <<Head(s)>> \o InsertStable(x, Tail(s))
         ELSE <<x>> \o s

RECURSIVE SortedFrom(_, _)
SortedFrom(acc, rest) ==
    IF rest = <<>> THEN acc
    ELSE SortedFrom(InsertStable(Head(rest), acc), Tail(rest))

Sorted(txs) == SortedFrom(<<>>, txs)

-----------------------------------------------------------------------------
(* Transaction records: [code, type, date, shares, actual_amount, fee].    *)
(* code is the string of its digits; type is one of the three kinds.       *)

BUY      == "buy"        \* '买入'
SELL     == "sell"       \* '卖出'
DIVIDEND == "dividend"   \* '分红'

ZfillWidth == 6

\* str(code).zfill(6)
RECURSIVE Zfill(_)
Zfill(code) == IF Len(code) >= ZfillWidth THEN code ELSE Zfill(<<0>> \o code)

\* avg_cost_per_share = cost / shares ; sell_cost = shares * avg_cost_per_share
SellCostWhole(shares, held) == held.cost

\* holdings[code]['shares'] <= 0.0001, in share units of 0.0001
CloseThreshold == 1

NewHolding == [shares |-> 0, cost |-> Rat(0)]

\* if formatted_code not in holdings: holdings[formatted_code] = {'shares': 0, 'cost': 0}
Touch(h, c) == IF c \in DOMAIN h THEN h ELSE h @@ (c :> NewHolding)

\* del holdings[formatted_code]
Delete(h, c) == [k \in DOMAIN h \ {c} |-> h[k]]

\* Buy: holdings[code]['cost'] += abs(amount)
BuyCostWithFee(amount, fee) == Abs(amount) + fee
BuyCostSigned(amount, fee) == amount
BuyCost(amount, fee) == Abs(amount)

\* sell_income = abs(amount) - fee
SellIncomeNoFee(amount, fee) == Abs(amount)
SellIncome(amount, fee) == Abs(amount) - fee

SellCost(shares, held) == RMul(Rat(shares), RDiv(held.cost, Rat(held.shares)))

\* oversold branch: avg_cost_per_share = abs(cost / shares)
OversoldSellCost(shares, held) ==
    RMul(Rat(shares), RAbs(RDiv(held.cost, Rat(held.shares))))

\* the holding is dropped after a Sell: shares <= 0.0001
Closed(shares) == shares <= CloseThreshold

\* Dividend: if shares > 0 the dividend is reinvested, else it is cash
IsReinvestedAlways(shares) == shares >= 0
IsReinvested(shares) == shares > 0

\* a reinvested dividend: holdings[code]['cost'] += abs(amount)
ReinvestCostSigned(amount) == amount
ReinvestCost(amount) == Abs(amount)

\* realized_profit += abs(amount) for a cash dividend
CashDividend(amount) == Abs(amount)

\* dividend_total += abs(amount), for every Dividend record
DividendTotalAdd(amount) == Abs(amount)

\* total_fee += fee, for a record of any kind
FeeOfTrades(type, fee) == IF type = DIVIDEND THEN 0 ELSE fee
FeeOf(type, fee) == fee

\* The state of the replay loop.
ReplayState(h, rp, dt, bc, sc, dc, tf, ft) ==
    [holdings |-> h, realized_profit |-> rp, dividend_total |-> dt,
     buy_count |-> bc, sell_count |-> sc, dividend_count |-> dc,
     total_fee |-> tf, fund_transactions |-> ft]

EmptyReplay == ReplayState(<<>>, Rat(0), 0, 0, 0, 0, 0, <<>>)

\* The quantities of a record whose stored text float() cannot read: a record
\* with such a quantity carries their names in a field `text`.
NonNumeric(t) == IF "text" \in DOMAIN t THEN t.text ELSE {}

\* float(t.get('shares', 0)), float(t.get('actual_amount', 0)) or
\* float(t.get('fee', 0)) raises ValueError
FloatRaises(t) == NonNumeric(t) # {}

\* fund_transactions[formatted_code].append(t)
Recorded(ft, t) ==
    IF Zfill(t.code) \in DOMAIN ft THEN [ft EXCEPT ![Zfill(t.code)] = Append(@, t)]
    ELSE ft @@ (Zfill(t.code) :> <<t>>)

\* One iteration of `for t in sorted_transactions`.
ReplayRecord(st, t) ==
    LET code   == Zfill(t.code)
        shares == t.shares
        amount == t.actual_amount
        fee    == t.fee
        ft     == IF code \in DOMAIN st.fund_transactions
                  THEN [st.fund_transactions EXCEPT ![code] = Append(@, t)]
                  ELSE st.fund_transactions @@ (code :> <<t>>)
        s0     == [st EXCEPT !.fund_transactions = ft,
                                 !.total_fee = @ + FeeOf(t.type, fee)]
        h      == Touch(st.holdings, code)
    IN  IF t.type = BUY THEN
            [s0 EXCEPT !.buy_count = @ + 1,
                       !.holdings = [h EXCEPT ![code] =
                            [shares |-> @.shares + shares,
                             cost   |-> RAdd(@.cost, Rat(BuyCost(amount, fee)))]]]
        ELSE IF t.type = SELL THEN
            IF h[code].shares > 0 THEN
                LET sell_cost == SellCost(shares, h[code])
                    left      == h[code].shares - shares
                    h2        == [h EXCEPT ![code] =
                                    [shares |-> left, cost |-> RSub(@.cost, sell_cost)]]
                IN  [s0 EXCEPT !.sell_count = @ + 1,
                               !.realized_profit =
                                    RAdd(@, RSub(Rat(SellIncome(amount, fee)), sell_cost)),
                               !.holdings = IF Closed(left) THEN Delete(h2, code) ELSE h2]
            ELSE IF h[code].shares < 0 THEN
                [s0 EXCEPT !.sell_count = @ + 1,
                           !.realized_profit =
                                RAdd(@, RSub(Rat(SellIncome(amount, fee)),
                                             OversoldSellCost(shares, h[code]))),
                           !.holdings = h]
            ELSE
                [s0 EXCEPT !.sell_count = @ + 1, !.holdings = h]
        ELSE IF t.type = DIVIDEND THEN
            IF IsReinvested(shares) THEN
                [s0 EXCEPT !.dividend_count = @ + 1,
                           !.dividend_total = @ + DividendTotalAdd(amount),
                           !.holdings = [h EXCEPT ![code] =
                                [shares |-> @.shares + shares,
                                 cost   |-> RAdd(@.cost, Rat(ReinvestCost(amount)))]]]
            ELSE
                [s0 EXCEPT !.dividend_count = @ + 1,
                           !.dividend_total = @ + DividendTotalAdd(amount),
                           !.realized_profit = RAdd(@, Rat(CashDividend(amount)))]
        ELSE s0

\* The whole loop over a list already sorted.
RECURSIVE ReplayAll(_, _)
ReplayAll(st, txs) ==
    IF txs = <<>> THEN st ELSE ReplayAll(ReplayRecord(st, Head(txs)), Tail(txs))

-----------------------------------------------------------------------------
(* The valuation collaborator and the per-fund cash flows. *)

ShareUnitsPerShare == 10000

\* a number of share units as shares
SharesOf(units) == Norm(units, ShareUnitsPerShare)

\* round(x, 2), to the nearest hundredth, halves to the even one
Round2(x) ==
    LET n == 100 * x[1]
        q == n \div x[2]
        r == n - q * x[2]
        up == 2 * r > x[2] \/ (2 * r = x[2] /\ q % 2 = 1)
    IN  Norm(IF up THEN q + 1 ELSE q, 100)

\* The codes of a holdings map as a list.  The code lists dict keys in insertion
\* order; the model lists them in ascending order of their digits.
RECURSIVE CodeValue(_)
CodeValue(code) == IF code = <<>> THEN 0
                   ELSE 10 * CodeValue(SubSeq(code, 1, Len(code) - 1)) + code[Len(code)]

RECURSIVE CodeList(_)
CodeList(S) ==
    IF S = {} THEN <<>>
    ELSE LET c == CHOOSE x \in S : \A y \in S : CodeValue(x) <= CodeValue(y)
         IN  <<c>> \o CodeList(S \ {c})

\* What the price service can say of one fund: expectWorth and netWorth, 0 for a
\* value that is None.
PriceSet == { [expectWorth |-> 0, netWorth |-> 0],
              [expectWorth |-> 0, netWorth |-> 2],
              [expectWorth |-> 3, netWorth |-> 2] }

\* fetch_fund_price_batch_sync(codes): [] when the request fails, else one entry
\* per requested code, in the order requested.
FetchAnswers(codes) ==
    {<<>>} \cup
    { [k \in DOMAIN codes |-> [code |-> codes[k], expectWorth |-> f[k].expectWorth,
                               netWorth |-> f[k].netWorth]] :
        f \in [DOMAIN codes -> PriceSet] }

\* fund_data.get('expectWorth') or fund_data.get('netWorth')
NetWorthOf(fund_data) ==
    IF fund_data.expectWorth # 0 THEN fund_data.expectWorth ELSE fund_data.netWorth

\* datetime.now(), as a date key
Now == Key(2025 * 10000 + 104)

Flow(cf, date, terminal) == [cf |-> cf, date |-> date, terminal |-> terminal]

\* The loop of calculate_fund_xirr: <<cashflows with their dates, total_shares>>.
RECURSIVE XirrLoop(_, _, _)
XirrLoop(fund_trans, flows, total_shares) ==
    IF fund_trans = <<>> THEN <<flows, total_shares>>
    ELSE LET t    == Head(fund_trans)
             date == parse_date(t.date)
             rest == Tail(fund_trans)
         IN  IF date = NONE THEN XirrLoop(rest, flows, total_shares)
             ELSE IF t.type = BUY THEN
                XirrLoop(rest, Append(flows, Flow(Rat(-(t.actual_amount + t.fee)), date, FALSE)),
                         total_shares + t.shares)
             ELSE IF t.type = SELL THEN
                XirrLoop(rest, Append(flows, Flow(Rat(t.actual_amount - t.fee), date, FALSE)),
                         total_shares - t.shares)
             ELSE IF t.type = DIVIDEND /\ t.shares = 0 THEN
                XirrLoop(rest, Append(flows, Flow(Rat(t.actual_amount), date, FALSE)),
                         total_shares)
             ELSE XirrLoop(rest, flows, total_shares)

\* The cash flows calculate_fund_xirr builds: the loop's flows and, when the
\* shares it counted are > 0, the final value total_shares * current_net_worth.
CashFlows(fund_trans, current_net_worth) ==
    LET r == XirrLoop(fund_trans, <<>>, 0)
    IN  IF r[2] > 0
        THEN Append(r[1], Flow(RMul(SharesOf(r[2]), Rat(current_net_worth)), Now, TRUE))
        ELSE r[1]

\* calculate_fund_xirr reaches xirr(cashflows, dates) only past its two guards.
HandsToSolver(fund_trans, current_net_worth) ==
    /\ fund_trans # <<>>
    /\ current_net_worth # 0
    /\ Len(CashFlows(fund_trans, current_net_worth)) >= 2

-----------------------------------------------------------------------------
(* The solver xirr(cashflows, dates).  cashflows are rationals, dates are  *)
(* calendar dates (yyyymmdd).  A rate is a quotient of whole numbers, and   *)
(* so is a net present value: the inputs of the model keep the dates whole  *)
(* years (multiples of 365 days) apart, so that (1 + rate) ** -d is one.    *)

\* tol = 1e-6 is 1 / TolInverse
TolInverse == 1000000

max_iter == 1000

DaysPerYear == 365

DaysBeforeYear(y) == 365 * (y - 1) + (y - 1) \div 4 - (y - 1) \div 100 + (y - 1) \div 400

RECURSIVE DaysBeforeMonth(_, _)
DaysBeforeMonth(y, m) ==
    IF m = 1 THEN 0 ELSE DaysBeforeMonth(y, m - 1) + DaysInMonth(y, m - 1)

\* the day number of a calendar date, as datetime subtraction counts days
DayNumber(date) ==
    LET y == date.v \div 10000
        m == (date.v \div 100) % 100
        d == date.v % 100
    IN  DaysBeforeYear(y) + DaysBeforeMonth(y, m) + d

\* n days / 365.0, for a number of days that is a whole number of years
YearsOf(n) == CHOOSE y \in 0..n : DaysPerYear * y = n

\* days = [(d - start_date).days / 365.0 for d in dates], start_date = min(dates)
DaysOf(dates) ==
    LET start_date == CHOOSE x \in { DayNumber(dates[k]) : k \in DOMAIN dates } :
                          \A k \in DOMAIN dates : x <= DayNumber(dates[k])
    IN  [k \in DOMAIN dates |-> YearsOf(DayNumber(dates[k]) - start_date)]

RECURSIVE RSum(_)
RSum(xs) == IF xs = <<>> THEN Rat(0) ELSE RAdd(Head(xs), RSum(Tail(xs)))

RECURSIVE BigSum(_)
BigSum(xs) == IF xs = <<>> THEN BigOfInt(0) ELSE BigAdd(Head(xs), BigSum(Tail(xs)))

Lcm(a, b) == (a \div Gcd(a, b)) * b

RECURSIVE CommonDen(_)
CommonDen(xs) == IF xs = <<>> THEN 1 ELSE Lcm(Head(xs)[2], CommonDen(Tail(xs)))

RECURSIVE MaxOf(_)
MaxOf(xs) ==
    IF Len(xs) = 1 THEN xs[1]
    ELSE LET m == MaxOf(Tail(xs)) IN IF Head(xs) > m THEN Head(xs) ELSE m

\* A float power raises OverflowError when its value is 2 ** 1024 or more.
FloatMaxExponent == 1024

\* the largest k with 2 ** k * b <= a, for naturals a >= b > 0
RECURSIVE FloorLog2(_, _)
FloorLog2(a, b) ==
    LET twice == NatMulLimb(b, 2, 0)
    IN  IF NatLess(a, twice) THEN 0 ELSE 1 + FloorLog2(a, twice)

\* (a / b) ** n overflows a float
PowTooBig(a, b, n) ==
    IF n = 0 \/ NatLess(a, b) THEN FALSE
    ELSE LET k == FloorLog2(a, b)
         IN  IF k * n >= FloatMaxExponent THEN TRUE
             ELSE IF (k + 1) * n <= FloatMaxExponent THEN FALSE
             ELSE ~NatLess(NatPow(a, n),
                           NatMul(NatPow(b, n), NatPow(<<2>>, FloatMaxExponent)))

\* xnpv(rate, cashflows, days) raises: one of the powers (1 + rate) ** -d overflows
XnpvRaises(rate, cashflows, days) ==
    LET p == BigAdd(BigInt(FALSE, rate.den), rate.num).mag
    IN  \E k \in DOMAIN cashflows : PowTooBig(rate.den, p, days[k])

\* xnpv(rate, cashflows, days) = sum(cf * ((1 + rate) ** -d)), with 1 + rate = p / q:
\* sum(cf * q**d * p**(D - d)) / p**D for D the largest d
xnpv(rate, cashflows, days) ==
    LET p == BigAdd(BigInt(FALSE, rate.den), rate.num).mag
        q == rate.den
        L == CommonDen(cashflows)
        D == MaxOf(days)
        term(k) == BigMul(BigOfInt(cashflows[k][1] * (L \div cashflows[k][2])),
                          BigInt(FALSE, NatMul(NatPow(q, days[k]), NatPow(p, D - days[k]))))
    IN  BigRat(BigSum([k \in DOMAIN cashflows |-> term(k)]),
               NatMul(NatOfInt(L), NatPow(p, D)))

\* abs(npv) < tol
WithinTolAlways(npv) == TRUE
WithinTol(npv) == NatLess(NatMul(npv.num.mag, NatOfInt(TolInverse)), npv.den)

\* npv_a * npv_b > 0
ProductPositive(npv_a, npv_b) == BigSign(npv_a.num) * BigSign(npv_b.num) > 0

\* total_cf <= 0
SumGuardStrict(total_cf) == RLess(total_cf, Rat(0))
SumGuard(total_cf) == RLeq(total_cf, Rat(0))

\* rate_low = -0.99, rate_high = 10.0
NarrowBracket == <<BigRat(BigOfInt(-99), NatOfInt(100)), BigRat(BigOfInt(1000), NatOfInt(100))>>

\* rate_low = -0.9999, rate_high = 1000.0
WideBracketSame == NarrowBracket
WideBracket ==
    <<BigRat(BigOfInt(-9999), NatOfInt(10000)), BigRat(BigOfInt(10000000), NatOfInt(10000))>>

\* (rate_low + rate_high) / 2, for two rates over one denominator
MidpointAtLow(rate_low, rate_high) ==
    BigRat(BigMul(BigOfInt(2), rate_low.num), NatMulLimb(rate_low.den, 2, 0))
Midpoint(rate_low, rate_high) ==
    BigRat(BigAdd(rate_low.num, rate_high.num), NatMulLimb(rate_low.den, 2, 0))

\* the same rate over twice the denominator
Rescale(rate) == BigRat(BigMul(BigOfInt(2), rate.num), NatMulLimb(rate.den, 2, 0))

\* (rate_high - rate_low) < tol, for two rates over one denominator
Narrow(rate_low, rate_high) ==
    BigLess(BigMul(BigSub(rate_high.num, rate_low.num), BigOfInt(TolInverse)),
            BigInt(FALSE, rate_low.den))

\* what xirr returns: None or a rate
XNone == [none |-> TRUE, num |-> BigOfInt(0), den |-> <<1>>]
XRate(rate) == [none |-> FALSE, num |-> rate.num, den |-> rate.den]

\* The frame of one call of xirr: its position, arguments and locals, and the
\* history of the call (NPV evaluations, widenings of the bracket, the bracket
\* at the start of the last iteration).
XirrFrame(pc_, cashflows, dates) ==
    [pc |-> pc_, cashflows |-> cashflows, dates |-> dates, days |-> <<>>,
     rate_low |-> BigRat(BigOfInt(0), <<1>>), rate_high |-> BigRat(BigOfInt(0), <<1>>),
     npv_low |-> BigRat(BigOfInt(0), <<1>>), npv_high |-> BigRat(BigOfInt(0), <<1>>),
     iter |-> 0, widened |-> 0, evals |-> 0,
     prev_low |-> BigRat(BigOfInt(0), <<1>>), prev_high |-> BigRat(BigOfInt(0), <<1>>),
     result |-> XNone]

XirrCall(cashflows, dates) == XirrFrame("call", cashflows, dates)

XirrIdle == XirrFrame("idle", <<>>, <<>>)

Returned(f, result) == [f EXCEPT !.pc = "returned", !.result = result]

\* the call ends with the OverflowError of a power
Raised(f) == [f EXCEPT !.pc = "raised"]

\* xnpv raises at an end of the bracket
BracketRaises(f, bracket) ==
    \/ XnpvRaises(bracket[1], f.cashflows, f.days)
    \/ XnpvRaises(bracket[2], f.cashflows, f.days)

\* lines 30-41: the guards
XirrGuards(f) ==
    IF Len(f.cashflows) # Len(f.dates) \/ Len(f.cashflows) < 2 THEN Returned(f, XNone)
    ELSE IF SumGuard(RSum(f.cashflows)) THEN Returned(f, XNone)
    ELSE [f EXCEPT !.pc = "bounds", !.days = DaysOf(f.dates)]

\* the NPV at both ends of a bracket
AtBracket(f, bracket) ==
    [f EXCEPT !.rate_low = bracket[1], !.rate_high = bracket[2],
              !.npv_low = xnpv(bracket[1], f.cashflows, f.days),
              !.npv_high = xnpv(bracket[2], f.cashflows, f.days),
              !.evals = @ + 2]

\* lines 48-61: the NPV at the ends of [-0.99, 10.0]
XirrBounds(f) ==
    LET g == AtBracket(f, NarrowBracket)
    IN  IF BracketRaises(f, NarrowBracket) THEN Raised(f)
        ELSE IF WithinTol(g.npv_low) THEN Returned(g, XRate(g.rate_low))
        ELSE IF WithinTol(g.npv_high) THEN Returned(g, XRate(g.rate_high))
        ELSE IF ProductPositive(g.npv_low, g.npv_high) THEN [g EXCEPT !.pc = "widen"]
        ELSE [g EXCEPT !.pc = "bisect"]

\* lines 62-69: the wider bracket
XirrWiden(f) ==
    LET g == [AtBracket(f, WideBracket) EXCEPT !.widened = @ + 1]
    IN  IF BracketRaises(f, WideBracket) THEN Raised([f EXCEPT !.widened = @ + 1])
        ELSE IF ProductPositive(g.npv_low, g.npv_high) THEN Returned(g, XNone)
        ELSE [g EXCEPT !.pc = "bisect"]

\* lines 72-89: one iteration of the bisection, or the return after max_iter
XirrBisect(f) ==
    IF f.iter < max_iter
    THEN LET rate_mid == Midpoint(f.rate_low, f.rate_high)
             npv_mid  == xnpv(rate_mid, f.cashflows, f.days)
             g == [f EXCEPT !.iter = @ + 1, !.evals = @ + 1,
                            !.prev_low = f.rate_low, !.prev_high = f.rate_high]
         IN  IF XnpvRaises(rate_mid, f.cashflows, f.days) THEN Raised(f)
             ELSE IF WithinTol(npv_mid) THEN Returned(g, XRate(rate_mid))
             ELSE LET h == IF ~ProductPositive(f.npv_low, npv_mid)
                           THEN [g EXCEPT !.rate_low = Rescale(@),
                                          !.rate_high = rate_mid, !.npv_high = npv_mid]
                           ELSE [g EXCEPT !.rate_low = rate_mid, !.npv_low = npv_mid,
                                          !.rate_high = Rescale(@)]
                  IN  IF Narrow(h.rate_low, h.rate_high) THEN Returned(h, XRate(rate_mid))
                      ELSE h
    ELSE Returned(f, XRate(Midpoint(f.rate_low, f.rate_high)))

XirrStep(f) ==
    CASE f.pc = "call"   -> XirrGuards(f)
      [] f.pc = "bounds" -> XirrBounds(f)
      [] f.pc = "widen"  -> XirrWiden(f)
      [] f.pc = "bisect" -> XirrBisect(f)

RECURSIVE XirrRun(_)
XirrRun(f) == IF f.pc \in {"returned", "raised"} THEN f ELSE XirrRun(XirrStep(f))

\* xirr(cashflows, dates): the frame the call ends in, returned or raised
xirr(cashflows, dates) == XirrRun(XirrCall(cashflows, dates))

-----------------------------------------------------------------------------
(* The fallback calculate_simple_return(fund_trans, current_net_worth,      *)
(* current_market_value, is_sold).                                          *)

\* how a call of calculate_simple_return ends: it returns None or a number, or
\* the OverflowError of its power leaves it
SNone == [none |-> TRUE, raised |-> FALSE, value |-> Rat(0)]
SNumber(x) == [none |-> FALSE, raised |-> FALSE, value |-> x]
SRaised == [none |-> TRUE, raised |-> TRUE, value |-> Rat(0)]

\* The loop of calculate_simple_return: the totals and the first and last date
\* met, NONE while no record with a date was met.
RECURSIVE SimpleLoop(_, _)
SimpleLoop(fund_trans, acc) ==
    IF fund_trans = <<>> THEN acc
    ELSE LET t    == Head(fund_trans)
             date == parse_date(t.date)
             seen == [acc EXCEPT !.first_date = IF @ = NONE THEN date ELSE @,
                                 !.last_date = date]
         IN  IF date = NONE THEN SimpleLoop(Tail(fund_trans), acc)
             ELSE IF t.type = BUY THEN
                SimpleLoop(Tail(fund_trans),
                           [seen EXCEPT !.total_invested = @ + Abs(t.actual_amount) + t.fee])
             ELSE IF t.type = SELL THEN
                SimpleLoop(Tail(fund_trans),
                           [seen EXCEPT !.total_sells = @ + t.actual_amount - t.fee])
             ELSE IF t.type = DIVIDEND /\ t.shares = 0 THEN
                SimpleLoop(Tail(fund_trans),
                           [seen EXCEPT !.total_dividends = @ + t.actual_amount])
             ELSE SimpleLoop(Tail(fund_trans), seen)

RECURSIVE RPow(_, _)
RPow(x, n) == IF n = 0 THEN Rat(1) ELSE RMul(x, RPow(x, n - 1))

\* 1 / years for years = days / 365.0, days a divisor of 365
PerYear(days) == CHOOSE n \in 1..DaysPerYear : n * days = DaysPerYear

\* x ** (1 / years)
Annualize(x, days) == RPow(x, PerYear(days))

\* x ** (1 / years) overflows, for x >= 1
AnnualizeRaises(x, days) == PowTooBig(NatOfInt(x[1]), NatOfInt(x[2]), PerYear(days))

\* the annualized figure with the sign of total_return, for base = 1 + the
\* ratio of abs(total_return) to total_invested
SimpleAnnualized(total_return, base, days) ==
    IF AnnualizeRaises(base, days) THEN SRaised
    ELSE IF RLeq(Rat(0), total_return)
         THEN SNumber(RSub(Annualize(base, days), Rat(1)))
         ELSE SNumber(RSub(Rat(0), RSub(Annualize(base, days), Rat(1))))

\* past `if not first_date or total_invested <= 0`
SimpleDated(total_invested, days, total_return) ==
    IF days <= 0 THEN SNone
    ELSE SimpleAnnualized(total_return,
                          RAdd(Rat(1), RDiv(RAbs(total_return), Rat(total_invested))),
                          days)

\* after the loop
SimpleTotals(acc, current_market_value, is_sold) ==
    IF acc.first_date = NONE \/ acc.total_invested <= 0 THEN SNone
    ELSE SimpleDated(acc.total_invested,
                     DayNumber(acc.last_date) - DayNumber(acc.first_date),
                     IF is_sold
                     THEN Rat(acc.total_sells + acc.total_dividends - acc.total_invested)
                     ELSE RAdd(current_market_value,
                               Rat(acc.total_sells + acc.total_dividends
                                   - acc.total_invested)))

calculate_simple_return(fund_trans, current_market_value, is_sold) ==
    IF fund_trans = <<>> THEN SNone
    ELSE SimpleTotals(SimpleLoop(fund_trans,
                                 [total_invested |-> 0, total_sells |-> 0,
                                  total_dividends |-> 0,
                                  first_date |-> NONE, last_date |-> NONE]),
                      current_market_value, is_sold)

\* the frame of one call of calculate_simple_return
SimpleFrame(pc_, fund_trans, current_market_value, is_sold) ==
    [pc |-> pc_, fund_trans |-> fund_trans, current_market_value |-> current_market_value,
     is_sold |-> is_sold, result |-> SNone]

SimpleIdle == SimpleFrame("idle", <<>>, Rat(0), FALSE)

-----------------------------------------------------------------------------
(* What calculate_fund_summary makes of the two: the return of one fund and  *)
(* the figure it reports.                                                    *)

FlowAmounts(flows) == [k \in DOMAIN flows |-> flows[k].cf]
FlowDates(flows) == [k \in DOMAIN flows |-> flows[k].date]

\* xirr(cashflows, dates) for a list of flows
XirrOfFlows(flows) == xirr(FlowAmounts(flows), FlowDates(flows))

\* try: return xirr(cashflows, dates); except Exception: return None
TryXirr(call) == IF call.pc = "raised" THEN XNone ELSE call.result

\* calculate_fund_xirr(fund_trans, current_net_worth): None at a guard, else
\* what xirr returns, None when xirr raises
calculate_fund_xirr(fund_trans, current_net_worth) ==
    IF ~HandsToSolver(fund_trans, current_net_worth) THEN XNone
    ELSE TryXirr(XirrOfFlows(CashFlows(fund_trans, current_net_worth)))

\* if xirr_result is None: the result of the fallback, if that is not None,
\* takes its place; raised when the fallback raises
WithFallback(xirr_result, simple_result) ==
    IF ~xirr_result.none THEN [raised |-> FALSE, result |-> xirr_result]
    ELSE IF simple_result.raised THEN [raised |-> TRUE, result |-> XNone]
    ELSE IF simple_result.none THEN [raised |-> FALSE, result |-> XNone]
    ELSE [raised |-> FALSE,
          result |-> XRate(BigRat(BigOfInt(simple_result.value[1]),
                                  NatOfInt(simple_result.value[2])))]

\* xirr_result = calculate_fund_xirr(...), then the fallback
ReturnOf(fund_trans, current_net_worth, current_market_value, is_sold) ==
    WithFallback(calculate_fund_xirr(fund_trans, current_net_worth),
                 calculate_simple_return(fund_trans, current_market_value, is_sold))

\* the least power of two times cap that is more than n / d
RECURSIVE NatQuotientCap(_, _, _)
NatQuotientCap(n, d, cap) ==
    IF NatLess(n, NatMul(NatOfInt(cap), d)) THEN cap ELSE NatQuotientCap(n, d, 2 * cap)

\* the largest q in lo..hi with q * d <= n
RECURSIVE NatQuotient(_, _, _, _)
NatQuotient(n, d, lo, hi) ==
    IF lo = hi THEN lo
    ELSE LET mid == (lo + hi + 1) \div 2
         IN  IF NatLess(n, NatMul(NatOfInt(mid), d))
             THEN NatQuotient(n, d, lo, mid - 1)
             ELSE NatQuotient(n, d, mid, hi)

\* n / d to the nearest whole number, halves to the even one, for q the whole
\* part of n / d
RoundHalfEven(n, d, q, twice_rest) ==
    IF NatLess(d, twice_rest) \/ (twice_rest = d /\ q % 2 = 1) THEN q + 1 ELSE q

NatRound(n, d, q) == RoundHalfEven(n, d, q, NatMul(NatSub(n, NatMul(NatOfInt(q), d)), <<2>>))

NatRounded(n, d) == NatRound(n, d, NatQuotient(n, d, 0, NatQuotientCap(n, d, 1)))

Signed(neg, h) == IF neg THEN -h ELSE h

\* round(x * 100, 2): the nearest hundredth of a percent, halves to the even one
RoundPercent(x) ==
    Norm(Signed(x.num.neg, NatRounded(NatMul(x.num.mag, NatOfInt(100 * 100)), x.den)), 100)

\* a reported return: a number of percent, or None
ReportNone == [none |-> TRUE, value |-> Rat(0)]
ReportNumber(x) == [none |-> FALSE, value |-> x]

\* round(xirr_result * 100, 2) if xirr_result else None
Reported(xirr_result) ==
    IF xirr_result.none \/ BigSign(xirr_result.num) = 0 THEN ReportNone
    ELSE ReportNumber(RoundPercent(xirr_result))

\* total_sells of a sold fund: amount - fee over its Sell records
RECURSIVE TotalSells(_)
TotalSells(fund_trans) ==
    IF fund_trans = <<>> THEN 0
    ELSE (IF Head(fund_trans).type = SELL
          THEN Head(fund_trans).actual_amount - Head(fund_trans).fee ELSE 0)
         + TotalSells(Tail(fund_trans))

-----------------------------------------------------------------------------
(* compare_versions(v1, v2) of update_system.py.  A version string is the  *)
(* sequence of its characters; SUP2 is the superscript two, a character    *)
(* str.isdigit() accepts and int() refuses.                                *)

DOT  == "."
SUP2 == "sup2"

DigitChars == <<"0", "1", "2", "3", "4", "5", "6", "7", "8", "9">>

IsAsciiDigit(c) == \E k \in DOMAIN DigitChars : DigitChars[k] = c

DigitValue(c) == (CHOOSE k \in DOMAIN DigitChars : DigitChars[k] = c) - 1

\* ord(c), for the characters of the model
CodePoint(c) ==
    IF c = "-" THEN 45
    ELSE IF c = DOT THEN 46
    ELSE IF IsAsciiDigit(c) THEN 48 + DigitValue(c)
    ELSE IF c = "v" THEN 118
    ELSE 178

\* version.replace('v', '')
ReplaceV(version) == SelectSeq(version, LAMBDA c : c # "v")

\* s.split('.')
RECURSIVE SplitDots(_, _)
SplitDots(s, cur) ==
    IF s = <<>> THEN <<cur>>
    ELSE IF Head(s) = DOT THEN <<cur>> \o SplitDots(Tail(s), <<>>)
    ELSE SplitDots(Tail(s), Append(cur, Head(s)))

\* part.isdigit()
IsDigitPart(part) ==
    /\ part # <<>>
    /\ \A k \in DOMAIN part : IsAsciiDigit(part[k]) \/ part[k] = SUP2

\* int(part) raises ValueError
IntRaises(part) == \E k \in DOMAIN part : part[k] = SUP2

\* int(part)
RECURSIVE IntOf(_)
IntOf(part) ==
    IF part = <<>> THEN 0
    ELSE 10 * IntOf(SubSeq(part, 1, Len(part) - 1)) + DigitValue(part[Len(part)])

\* the parts of a version that pass `if part.isdigit()`
DigitParts(version) == SelectSeq(SplitDots(ReplaceV(version), <<>>), IsDigitPart)

\* parse_version(version) raises
ParseVersionRaises(version) ==
    \E k \in DOMAIN DigitParts(version) : IntRaises(DigitParts(version)[k])

\* parse_version(version): [int(part) for part in parts if part.isdigit()]
parse_version(version) ==
    [k \in DOMAIN DigitParts(version) |-> IntOf(DigitParts(version)[k])]

\* v_parts[i] if i < len(v_parts) else 0
PartOr0(parts, i) == IF i <= Len(parts) THEN parts[i] ELSE 0

\* if val2 > val1: return True
HigherOrSame(val2, val1) == val2 >= val1
Higher(val2, val1) == val2 > val1

\* the loop over the parts from the i-th on
RECURSIVE CompareParts(_, _, _)
CompareParts(v1_parts, v2_parts, i) ==
    IF i > Len(v1_parts) /\ i > Len(v2_parts) THEN FALSE
    ELSE IF Higher(PartOr0(v2_parts, i), PartOr0(v1_parts, i)) THEN TRUE
    ELSE IF PartOr0(v2_parts, i) < PartOr0(v1_parts, i) THEN FALSE
    ELSE CompareParts(v1_parts, v2_parts, i + 1)

\* a > b for two strings: the order of the code points, a prefix first
RECURSIVE StrGreater(_, _)
StrGreater(a, b) ==
    IF a = <<>> THEN FALSE
    ELSE IF b = <<>> THEN TRUE
    ELSE IF CodePoint(Head(a)) # CodePoint(Head(b))
         THEN CodePoint(Head(a)) > CodePoint(Head(b))
    ELSE StrGreater(Tail(a), Tail(b))

\* compare_versions(v1, v2): the comparison of the parts, and the comparison
\* of the strings when parse_version raised
compare_versions(v1, v2) ==
    IF ParseVersionRaises(v1) \/ ParseVersionRaises(v2)
    THEN v2 # v1 /\ StrGreater(v2, v1)
    ELSE CompareParts(parse_version(v1), parse_version(v2), 1)

VersionFrame(pc_, v1, v2) == [pc |-> pc_, v1 |-> v1, v2 |-> v2, result |-> FALSE]

VersionIdle == VersionFrame("idle", <<>>, <<>>)

\* no request is being served
RequestNone == [pc |-> "none", transactions |-> <<>>]

\* the transactions endpoint before its first request: no rows, nothing cached
CacheIdle ==
    /\ fund_db = <<>>
    /\ last_id = 0
    /\ fund_cache = <<>>
    /\ today = 1
    /\ request = RequestNone
    /\ response = <<>>

\* no price-notification condition, no check running
NotifyIdle ==
    /\ price_notifications = <<>>
    /\ check_frame = <<>>
    /\ delivered = <<>>

\* nothing of the other modules is running
OthersIdle == version_frame = VersionIdle /\ CacheIdle /\ NotifyIdle

-----------------------------------------------------------------------------
(* Inputs. *)

MaxTx == 2

c1 == <<1>>
c2 == <<2>>

D(y, m, d)  == <<Tok(y), Chr(DASH), Tok(m), Chr(DASH), Tok(d)>>
DS(y, m, d) == <<Tok(y), Chr(SLASH), Tok(m), Chr(SLASH), Tok(d)>>
\* "yyyy/m/d hh:mm:ss"
DT(y, m, d) == DS(y, m, d) \o <<Chr(SPACE), Tok(9), Chr(":"), Tok(30), Chr(":"), Tok(0)>>

Quantity(s, a, f) == [shares |-> s, actual_amount |-> a, fee |-> f]

Tx(code, type, date, q) ==
    [code |-> code, type |-> type, date |-> date,
     shares |-> q.shares, actual_amount |-> q.actual_amount, fee |-> q.fee]

Kinds == {BUY, SELL, DIVIDEND}

Family(codes, dates, quantities) ==
    { Tx(c, k, d, q) : c \in codes, k \in Kinds, d \in dates, q \in quantities }

ListsUpTo(S, max) == UNION { [1..n -> S] : n \in 0..max }

Lists(S) == ListsUpTo(S, MaxTx)

\* The accounting family: one fund with every kind of quantity (a signed amount
\* with a fee, a single share unit, no shares, negative shares) and a second
\* fund with the first of them, on one day.
TxSet ==
    Family({c1}, {D(2024, 1, 5)},
           { Quantity(3, -6, 1), Quantity(1, 5, 0), Quantity(0, 4, 1), Quantity(-3, 2, 0) })
    \cup Family({c2}, {D(2024, 1, 5)}, { Quantity(3, -6, 1) })

\* The ordering family: one fund, one quantity, every shape of date string (the
\* same day written in two ways, a day a year earlier, a day that is not in the
\* calendar, no date, no digits).
OrderTxSet ==
    Family({c1}, { D(2024, 1, 5), DT(2024, 1, 5), DS(2023, 1, 5), D(2023, 2, 30),
                   <<>>, <<Chr(JUNK)>> },
           { Quantity(3, -6, 1) })


\* The valuation family: a fund bought for 100 and sold out a year later for
\* 100 or for 110, a fund bought for 2 a share a year ago, and a fund whose
\* Buy is dated two hundred years back.
c3 == <<3>>

ValuationTxSet ==
    { Tx(c1, BUY, D(2023, 1, 5), Quantity(ShareUnitsPerShare, 100, 0)),
      Tx(c1, SELL, D(2024, 1, 5), Quantity(ShareUnitsPerShare, 100, 0)),
      Tx(c1, SELL, D(2024, 1, 5), Quantity(ShareUnitsPerShare, 110, 0)),
      Tx(c2, BUY, D(2024, 1, 5), Quantity(ShareUnitsPerShare, 2, 0)),
      Tx(c3, BUY, D(1824, 2, 23), Quantity(ShareUnitsPerShare, 2, 0)) }

\* a record one or more of whose quantities are stored as text that is not a
\* number; Zeroed reads such a quantity as 0
TextTx(code, type, date, q, fields) ==
    [code |-> code, type |-> type, date |-> date,
     shares |-> q.shares, actual_amount |-> q.actual_amount, fee |-> q.fee,
     text |-> fields]

\* The parsing family: a Buy, a Sell and a cash Dividend of one fund and a Buy
\* of a second one, and records whose shares, actualAmount or fee is text.
ParseTxSet ==
    { Tx(c1, BUY, D(2024, 1, 5), Quantity(3, -6, 1)),
      Tx(c1, SELL, D(2024, 1, 5), Quantity(3, 8, 1)),
      Tx(c1, DIVIDEND, D(2024, 1, 5), Quantity(0, 4, 0)),
      Tx(c2, BUY, D(2024, 1, 5), Quantity(3, 6, 0)),
      TextTx(c1, BUY, D(2024, 1, 5), Quantity(3, -6, 0), {"fee"}),
      TextTx(c1, SELL, D(2024, 1, 5), Quantity(0, 8, 1), {"shares"}),
      TextTx(c2, DIVIDEND, D(2024, 1, 5), Quantity(0, 0, 0), {"actual_amount"}) }

\* The average-cost family: histories of up to MaxAverageTx records of one fund
\* on one day: a Buy at 2 a unit, a Buy at 4 a unit with a signed amount and a
\* fee, a Sell of 2 units, a Sell of 3 units and a Dividend reinvested at 1 a unit.
MaxAverageTx == 3

AverageTxSet ==
    { Tx(c1, BUY, D(2024, 1, 5), Quantity(4, 8, 0)),
      Tx(c1, BUY, D(2024, 1, 5), Quantity(2, -8, 1)),
      Tx(c1, SELL, D(2024, 1, 5), Quantity(2, 6, 0)),
      Tx(c1, SELL, D(2024, 1, 5), Quantity(3, 6, 0)),
      Tx(c1, DIVIDEND, D(2024, 1, 5), Quantity(2, 2, 0)) }

\* The solver family: series of up to MaxFlows flows on three days a year apart,
\* the date list as long as the flow list or not.
MaxFlows == 2

XirrAmounts == {-100, -1, 50, 100, 110, 1100}

XirrDates == { Key(20230105), Key(20240105), Key(20250104) }

XirrInputs ==
    { <<cf, ds>> : cf \in UNION { [1..n -> { Rat(a) : a \in XirrAmounts }] : n \in 0..MaxFlows },
                   ds \in UNION { [1..n -> XirrDates] : n \in 0..MaxFlows } }

\* The bisection family: series of up to MaxBisectFlows flows with as many
\* dates, on the three days of the solver family.
MaxBisectFlows == 2

BisectAmounts == {-100, -1, 100, 110}

BisectInputs ==
    UNION { { <<cf, ds>> : cf \in [1..n -> { Rat(a) : a \in BisectAmounts }],
                           ds \in [1..n -> XirrDates] } : n \in 1..MaxBisectFlows }

\* The fallback family: histories of up to MaxSimpleTx records of one fund, a
\* year apart or undated, with the market value 120 or 0, held or sold out.
MaxSimpleTx == 3

SimpleTxSet ==
    { Tx(c1, BUY, D(2023, 1, 5), Quantity(10, 100, 0)),
      Tx(c1, BUY, <<>>, Quantity(10, 100, 0)),
      Tx(c1, BUY, D(2024, 1, 5), Quantity(0, 0, 0)),
      Tx(c1, SELL, D(2023, 1, 5), Quantity(10, 50, 0)),
      Tx(c1, SELL, D(2024, 1, 5), Quantity(10, 100, 0)),
      Tx(c1, SELL, D(2024, 1, 5), Quantity(10, 130, 10)),
      Tx(c1, DIVIDEND, D(2024, 1, 5), Quantity(0, 20, 0)),
      Tx(c1, DIVIDEND, D(2024, 1, 5), Quantity(5, 20, 0)) }

SimpleInputs ==
    { <<ft, mv, sold>> : ft \in UNION { [1..n -> SimpleTxSet] : n \in 0..MaxSimpleTx },
                         mv \in { Rat(0), Rat(120) }, sold \in BOOLEAN }

-----------------------------------------------------------------------------
(* calculate_fund_summary as a state machine. *)

Current ==
    ReplayState(holdings, realized_profit, dividend_total, buy_count, sell_count,
                dividend_count, total_fee, fund_transactions)

\* calculate_fund_summary is called with a list of L
CalledWith(L) ==
    /\ transactions \in L
    /\ pc = "start"
    /\ sorted_transactions = <<>>
    /\ idx = 0
    /\ holdings = <<>>
    /\ realized_profit = Rat(0)
    /\ dividend_total = 0
    /\ buy_count = 0
    /\ sell_count = 0
    /\ dividend_count = 0
    /\ total_fee = 0
    /\ fund_transactions = <<>>
    /\ prev = EmptyReplay
    /\ fund_prices = <<>>
    /\ market_value = Rat(0)
    /\ fund_performance = <<>>
    /\ solver_input = <<>>
    /\ fetch_log = <<>>
    /\ sold_funds_xirr = <<>>
    /\ sold_input = <<>>
    /\ xirr_results = <<>>
    /\ overall_xirr = XNone
    /\ summary = <<>>

\* calculate_fund_summary is called with a list of up to MaxTx records of S
SummaryCalled(S) == CalledWith(Lists(S))

InitWith(S) ==
    /\ SummaryCalled(S)
    /\ xirr_frame = XirrIdle
    /\ simple_frame = SimpleIdle
    /\ OthersIdle

Init == InitWith(TxSet)

OrderInit == InitWith(OrderTxSet)

ValuationInit == InitWith(ValuationTxSet)

ParseInit == InitWith(ParseTxSet)

AverageInit ==
    /\ CalledWith(ListsUpTo(AverageTxSet, MaxAverageTx))
    /\ xirr_frame = XirrIdle
    /\ simple_frame = SimpleIdle
    /\ OthersIdle

\* the dict returned for an empty list
EmptySummary ==
    [total_shares |-> Rat(0), total_cost |-> Rat(0), realized_profit |-> Rat(0),
     dividend_total |-> Rat(0), buy_count |-> 0, sell_count |-> 0, dividend_count |-> 0,
     trade_count |-> 0, total_fee |-> Rat(0), market_value |-> Rat(0),
     fund_performance |-> <<>>]

\* if not transactions: return the all-zero summary
ReturnEmpty ==
    /\ pc = "start"
    /\ transactions = <<>>
    /\ pc' = "done"
    /\ summary' = EmptySummary
    /\ UNCHANGED <<transactions, sorted_transactions, idx, holdings, realized_profit,
                   dividend_total, buy_count, sell_count, dividend_count, total_fee,
                   fund_transactions, prev, fund_prices, market_value,
                   fund_performance, solver_input,
                   fetch_log, sold_funds_xirr, sold_input,
                   xirr_results, overall_xirr, xirr_frame, simple_frame, otherVars>>

\* sorted_transactions = sorted(transactions, key=get_sort_key)
SortTransactions ==
    /\ pc = "start"
    /\ transactions # <<>>
    /\ sorted_transactions' = Sorted(transactions)
    /\ pc' = "replay"
    /\ UNCHANGED <<transactions, idx, holdings, realized_profit,
                   dividend_total, buy_count, sell_count, dividend_count, total_fee,
                   fund_transactions, prev, fund_prices, market_value,
                   fund_performance, solver_input,
                   fetch_log, sold_funds_xirr, sold_input,
                   xirr_results, overall_xirr, summary, xirr_frame, simple_frame, otherVars>>

\* the record is replayed: the iteration runs to its end
Replayed(st) ==
    /\ holdings' = st.holdings
    /\ realized_profit' = st.realized_profit
    /\ dividend_total' = st.dividend_total
    /\ buy_count' = st.buy_count
    /\ sell_count' = st.sell_count
    /\ dividend_count' = st.dividend_count
    /\ total_fee' = st.total_fee
    /\ fund_transactions' = st.fund_transactions
    /\ prev' = Current
    /\ idx' = idx + 1
    /\ pc' = pc

\* a quantity of the record is not a number: the ValueError of float() leaves
\* calculate_fund_summary, the record already appended to fund_transactions
ReplayRaises(t) ==
    /\ pc' = "raised"
    /\ fund_transactions' = Recorded(fund_transactions, t)
    /\ UNCHANGED <<holdings, realized_profit, dividend_total, buy_count, sell_count,
                   dividend_count, total_fee, prev, idx>>

\* one iteration of the replay loop
Replay ==
    /\ pc = "replay"
    /\ idx < Len(sorted_transactions)
    /\ IF FloatRaises(sorted_transactions[idx + 1])
       THEN ReplayRaises(sorted_transactions[idx + 1])
       ELSE Replayed(ReplayRecord(Current, sorted_transactions[idx + 1]))
    /\ UNCHANGED <<transactions, sorted_transactions, fund_prices, market_value,
                   fund_performance, solver_input,
                   fetch_log, sold_funds_xirr, sold_input,
                   xirr_results, overall_xirr, summary, xirr_frame, simple_frame, otherVars>>

\* the loop is over
ReplayDone ==
    /\ pc = "replay"
    /\ idx = Len(sorted_transactions)
    /\ pc' = "sold"
    /\ UNCHANGED <<transactions, sorted_transactions, idx, holdings, realized_profit,
                   dividend_total, buy_count, sell_count, dividend_count, total_fee,
                   fund_transactions, prev, fund_prices, market_value,
                   fund_performance, solver_input,
                   fetch_log, sold_funds_xirr, sold_input,
                   xirr_results, overall_xirr, summary, xirr_frame, simple_frame, otherVars>>

\* sold_fund_codes = set(fund_transactions.keys()) - set(holdings.keys())
sold_fund_codes == DOMAIN fund_transactions \ DOMAIN holdings

\* fund_price_dict.get(code, {}): the entry of a code in an answer of the price
\* service, an entry without prices when the answer has none for the code
PriceEntry(answer, code) ==
    IF \E k \in DOMAIN answer : answer[k].code = code
    THEN answer[CHOOSE k \in DOMAIN answer : answer[k].code = code]
    ELSE [code |-> code, expectWorth |-> 0, netWorth |-> 0]

\* fund_info.get('expectWorth') or fund_info.get('netWorth') or 1.0
SoldNetWorth(fund_info) ==
    IF NetWorthOf(fund_info) # 0 THEN NetWorthOf(fund_info) ELSE 1

\* one sold fund: its entry, the cash flows handed to the solver and its
\* xirr_result r; raised when the fallback raised
SoldEntry(acc, code, ft, current_net_worth, r) ==
    IF r.raised THEN [acc EXCEPT !.raised = TRUE]
    ELSE [acc EXCEPT
            !.sold = Append(@, [code |-> code, xirr |-> Reported(r.result)]),
            !.results = @ @@ (code :> r.result),
            !.handed = IF HandsToSolver(ft, current_net_worth)
                       THEN @ @@ (code :> CashFlows(ft, current_net_worth))
                       ELSE @]

SoldFund(acc, code, ft, current_net_worth) ==
    SoldEntry(acc, code, ft, current_net_worth,
              ReturnOf(ft, current_net_worth, Rat(TotalSells(ft)), TRUE))

\* The loop `for code in sold_fund_codes`.  The code walks a set; the model
\* walks it in ascending order of the codes.
RECURSIVE SoldLoop(_, _, _)
SoldLoop(codes, answer, acc) ==
    IF codes = <<>> \/ acc.raised THEN acc
    ELSE SoldLoop(Tail(codes), answer,
                  SoldFund(acc, Head(codes), fund_transactions[Head(codes)],
                           SoldNetWorth(PriceEntry(answer, Head(codes)))))

\* the sold block for an answer of the price service
SoldBlock(r) ==
    IF r.raised
    THEN /\ pc' = "raised"
         /\ UNCHANGED <<sold_funds_xirr, sold_input, xirr_results>>
    ELSE /\ pc' = "performance"
         /\ sold_funds_xirr' = r.sold
         /\ sold_input' = r.handed
         /\ xirr_results' = r.results

\* if sold_fund_codes: fetch the prices of every code, held or sold, and work
\* out the return of each sold fund
SoldFunds ==
    /\ pc = "sold"
    /\ sold_fund_codes # {}
    /\ fetch_log' = Append(fetch_log, CodeList(DOMAIN holdings) \o CodeList(sold_fund_codes))
    /\ \E fund_prices_all \in
             FetchAnswers(CodeList(DOMAIN holdings) \o CodeList(sold_fund_codes)) :
          SoldBlock(SoldLoop(CodeList(sold_fund_codes), fund_prices_all,
                             [sold |-> <<>>, handed |-> <<>>, results |-> <<>>,
                              raised |-> FALSE]))
    /\ UNCHANGED <<transactions, sorted_transactions, idx, holdings, realized_profit,
                   dividend_total, buy_count, sell_count, dividend_count, total_fee,
                   fund_transactions, prev, fund_prices, market_value,
                   fund_performance, solver_input,
                   overall_xirr, summary, xirr_frame, simple_frame, otherVars>>

\* no fund was sold out: the block is skipped
NoSoldFunds ==
    /\ pc = "sold"
    /\ sold_fund_codes = {}
    /\ pc' = "performance"
    /\ UNCHANGED <<transactions, sorted_transactions, idx, holdings, realized_profit,
                   dividend_total, buy_count, sell_count, dividend_count, total_fee,
                   fund_transactions, prev, fund_prices, market_value,
                   fund_performance, solver_input, fetch_log, sold_funds_xirr,
                   sold_input,
                   xirr_results, overall_xirr, summary, xirr_frame, simple_frame, otherVars>>

\* one held fund with a price: its entry, its market value, the cash flows
\* handed to the solver and its xirr_result r; raised when the fallback raised
PerformanceEntry(acc, code, ft, nw, fund_mv, r) ==
    IF r.raised THEN [acc EXCEPT !.raised = TRUE]
    ELSE [acc EXCEPT
            !.perf = Append(@, [code |-> code,
                                shares |-> Round2(SharesOf(holdings[code].shares)),
                                cost |-> Round2(RAbs(holdings[code].cost)),
                                market_value |-> Round2(fund_mv),
                                xirr |-> Reported(r.result)]),
            !.mv = RAdd(@, fund_mv),
            !.results = @ @@ (code :> r.result),
            !.handed = IF HandsToSolver(ft, nw) THEN @ @@ (code :> CashFlows(ft, nw))
                       ELSE @]

HeldFund(acc, code, ft, nw, fund_mv) ==
    PerformanceEntry(acc, code, ft, nw, fund_mv, ReturnOf(ft, nw, fund_mv, FALSE))

\* The loop `for fund_data in fund_prices`.
RECURSIVE PerformanceLoop(_, _)
PerformanceLoop(prices, acc) ==
    IF prices = <<>> \/ acc.raised THEN acc
    ELSE IF Head(prices).code \in DOMAIN holdings /\ NetWorthOf(Head(prices)) # 0
    THEN PerformanceLoop(Tail(prices),
             HeldFund(acc, Head(prices).code, fund_transactions[Head(prices).code],
                      NetWorthOf(Head(prices)),
                      RMul(SharesOf(holdings[Head(prices).code].shares),
                           Rat(NetWorthOf(Head(prices))))))
    ELSE PerformanceLoop(Tail(prices), acc)

\* the performance block for an answer of the price service
PerformanceBlock(answer, r) ==
    IF r.raised
    THEN /\ pc' = "raised"
         /\ UNCHANGED <<fund_prices, fund_performance, market_value, solver_input,
                        xirr_results>>
    ELSE /\ pc' = "overall"
         /\ fund_prices' = answer
         /\ fund_performance' = r.perf
         /\ market_value' = r.mv
         /\ solver_input' = r.handed
         /\ xirr_results' = r.results

\* if holdings: fetch the prices of the held funds and build fund_performance
Performance ==
    /\ pc = "performance"
    /\ holdings # <<>>
    /\ \E answer \in FetchAnswers(CodeList(DOMAIN holdings)) :
          PerformanceBlock(answer,
              PerformanceLoop(answer, [perf |-> <<>>, mv |-> Rat(0), handed |-> <<>>,
                                       results |-> xirr_results, raised |-> FALSE]))
    /\ fetch_log' = Append(fetch_log, CodeList(DOMAIN holdings))
    /\ UNCHANGED <<transactions, sorted_transactions, idx, holdings, realized_profit,
                   dividend_total, buy_count, sell_count, dividend_count, total_fee,
                   fund_transactions, prev, sold_funds_xirr, sold_input,
                   overall_xirr, summary, xirr_frame, simple_frame, otherVars>>

\* no holdings: nothing to value
NoHoldings ==
    /\ pc = "performance"
    /\ holdings = <<>>
    /\ pc' = "overall"
    /\ UNCHANGED <<transactions, sorted_transactions, idx, holdings, realized_profit,
                   dividend_total, buy_count, sell_count, dividend_count, total_fee,
                   fund_transactions, prev, fund_prices, market_value,
                   fund_performance, solver_input,
                   fetch_log, sold_funds_xirr, sold_input,
                   xirr_results, overall_xirr, summary, xirr_frame, simple_frame, otherVars>>

\* fund_net_worths.get(code, 0): the price of a code in the answer, 0 without one
FundNetWorth(answer, code) == NetWorthOf(PriceEntry(answer, code))

\* total_current_value: shares * nw summed over the holdings
RECURSIVE TotalCurrentValue(_, _)
TotalCurrentValue(codes, answer) ==
    IF codes = <<>> THEN Rat(0)
    ELSE RAdd(RMul(SharesOf(holdings[Head(codes)].shares),
                   Rat(FundNetWorth(answer, Head(codes)))),
              TotalCurrentValue(Tail(codes), answer))

\* all_cashflows with all_dates, for r what the loop over the dated records of
\* sorted_transactions gives: its flows and, when the shares it counts are > 0
\* and the holdings are worth > 0, that worth today
WithCurrentValue(r, total_current_value) ==
    IF r[2] > 0 /\ ~RLeq(total_current_value, Rat(0))
    THEN Append(r[1], Flow(total_current_value, Now, TRUE))
    ELSE r[1]

OverallFlows(answer) ==
    WithCurrentValue(XirrLoop(sorted_transactions, <<>>, 0),
                     TotalCurrentValue(CodeList(DOMAIN holdings), answer))

\* sum(h['shares'] for h in holdings.values()), in share units
RECURSIVE SumShares(_)
SumShares(codes) ==
    IF codes = <<>> THEN 0 ELSE holdings[Head(codes)].shares + SumShares(Tail(codes))

\* sum(h['cost'] for h in holdings.values())
RECURSIVE SumCost(_)
SumCost(codes) ==
    IF codes = <<>> THEN Rat(0) ELSE RAdd(holdings[Head(codes)].cost, SumCost(Tail(codes)))

\* the dict returned at the end, for the overall_xirr found
Summary(overall) ==
    [total_shares |-> Round2(SharesOf(SumShares(CodeList(DOMAIN holdings)))),
     total_cost |-> Round2(RAbs(SumCost(CodeList(DOMAIN holdings)))),
     realized_profit |-> Round2(realized_profit),
     dividend_total |-> Round2(Rat(dividend_total)),
     total_fee |-> Round2(Rat(total_fee)),
     market_value |-> Round2(market_value),
     buy_count |-> buy_count,
     sell_count |-> sell_count,
     dividend_count |-> dividend_count,
     trade_count |-> Len(transactions),
     fund_performance |-> fund_performance,
     sold_funds_xirr |-> sold_funds_xirr,
     overall_xirr |-> Reported(overall)]

\* return the summary with the overall_xirr found
Return(overall) ==
    /\ pc' = "done"
    /\ overall_xirr' = overall
    /\ summary' = Summary(overall)

\* overall_xirr = xirr(all_cashflows, all_dates), outside any try
OverallCall(call) ==
    IF call.pc = "raised" THEN pc' = "raised" /\ UNCHANGED <<overall_xirr, summary>>
    ELSE Return(call.result)

\* if len(all_cashflows) >= 2
OverallBlock(flows) ==
    IF Len(flows) < 2 THEN Return(XNone) ELSE OverallCall(XirrOfFlows(flows))

\* if holdings: fetch the prices again and solve for the return of the whole
\* list; an OverflowError of xirr leaves calculate_fund_summary.  Then return.
Overall ==
    /\ pc = "overall"
    /\ holdings # <<>>
    /\ fetch_log' = Append(fetch_log, CodeList(DOMAIN holdings))
    /\ \E answer \in FetchAnswers(CodeList(DOMAIN holdings)) :
          OverallBlock(OverallFlows(answer))
    /\ UNCHANGED <<transactions, sorted_transactions, idx, holdings, realized_profit,
                   dividend_total, buy_count, sell_count, dividend_count, total_fee,
                   fund_transactions, prev, fund_prices, market_value,
                   fund_performance, solver_input, sold_funds_xirr, sold_input,
                   xirr_results, xirr_frame, simple_frame, otherVars>>

\* no holdings: overall_xirr stays None.  Then return.
NoOverall ==
    /\ pc = "overall"
    /\ holdings = <<>>
    /\ Return(XNone)
    /\ UNCHANGED <<transactions, sorted_transactions, idx, holdings, realized_profit,
                   dividend_total, buy_count, sell_count, dividend_count, total_fee,
                   fund_transactions, prev, fund_prices, market_value,
                   fund_performance, solver_input,
                   fetch_log, sold_funds_xirr, sold_input,
                   xirr_results, xirr_frame, simple_frame, otherVars>>

Next ==
    \/ ReturnEmpty
    \/ SortTransactions
    \/ Replay
    \/ ReplayDone
    \/ SoldFunds
    \/ NoSoldFunds
    \/ Performance
    \/ NoHoldings
    \/ Overall
    \/ NoOverall

Spec == Init /\ [][Next]_vars

OrderSpec == OrderInit /\ [][Next]_vars

ValuationSpec == ValuationInit /\ [][Next]_vars

ParseSpec == ParseInit /\ [][Next]_vars

AverageSpec == AverageInit /\ [][Next]_vars

-----------------------------------------------------------------------------
(* xirr as a state machine: one action per step of the function. *)

\* nothing of calculate_fund_summary is running
SummaryIdle ==
    /\ transactions = <<>>
    /\ pc = "idle"
    /\ sorted_transactions = <<>>
    /\ idx = 0
    /\ holdings = <<>>
    /\ realized_profit = Rat(0)
    /\ dividend_total = 0
    /\ buy_count = 0
    /\ sell_count = 0
    /\ dividend_count = 0
    /\ total_fee = 0
    /\ fund_transactions = <<>>
    /\ prev = EmptyReplay
    /\ fund_prices = <<>>
    /\ market_value = Rat(0)
    /\ fund_performance = <<>>
    /\ solver_input = <<>>
    /\ fetch_log = <<>>
    /\ sold_funds_xirr = <<>>
    /\ sold_input = <<>>
    /\ xirr_results = <<>>
    /\ overall_xirr = XNone
    /\ summary = <<>>

XirrInit ==
    /\ SummaryIdle
    /\ \E in \in XirrInputs : xirr_frame = XirrCall(in[1], in[2])
    /\ simple_frame = SimpleIdle
    /\ OthersIdle

Guards ==
    /\ xirr_frame.pc = "call"
    /\ xirr_frame' = XirrGuards(xirr_frame)
    /\ UNCHANGED <<summaryVars, simple_frame, otherVars>>

Bounds ==
    /\ xirr_frame.pc = "bounds"
    /\ xirr_frame' = XirrBounds(xirr_frame)
    /\ UNCHANGED <<summaryVars, simple_frame, otherVars>>

Widen ==
    /\ xirr_frame.pc = "widen"
    /\ xirr_frame' = XirrWiden(xirr_frame)
    /\ UNCHANGED <<summaryVars, simple_frame, otherVars>>

Bisect ==
    /\ xirr_frame.pc = "bisect"
    /\ xirr_frame' = XirrBisect(xirr_frame)
    /\ UNCHANGED <<summaryVars, simple_frame, otherVars>>

XirrNext ==
    \/ Guards
    \/ Bounds
    \/ Widen
    \/ Bisect

XirrSpec == XirrInit /\ [][XirrNext]_vars

BisectInit ==
    /\ SummaryIdle
    /\ \E in \in BisectInputs : xirr_frame = XirrCall(in[1], in[2])
    /\ simple_frame = SimpleIdle
    /\ OthersIdle

BisectSpec == BisectInit /\ [][XirrNext]_vars

-----------------------------------------------------------------------------
(* calculate_simple_return as a state machine: the call and its return. *)

SimpleInit ==
    /\ SummaryIdle
    /\ xirr_frame = XirrIdle
    /\ \E in \in SimpleInputs : simple_frame = SimpleFrame("call", in[1], in[2], in[3])
    /\ OthersIdle

SimpleReturn ==
    /\ simple_frame.pc = "call"
    /\ simple_frame' =
          LET result == calculate_simple_return(simple_frame.fund_trans,
                                                simple_frame.current_market_value,
                                                simple_frame.is_sold)
          IN  [simple_frame EXCEPT !.pc = IF result.raised THEN "raised" ELSE "returned",
                                   !.result = result]
    /\ UNCHANGED <<summaryVars, xirr_frame, otherVars>>

SimpleNext == SimpleReturn

SimpleSpec == SimpleInit /\ [][SimpleNext]_vars

-----------------------------------------------------------------------------
(* compare_versions as a state machine: the call and its return. *)

\* The version family: versions of one to three parts, with and without the
\* prefix v, among them 0.1.2 and 0.1.10, and one with a superscript digit.
VersionSet ==
    { <<"0", DOT, "1">>,
      <<"0", DOT, "1", DOT, "0">>,
      <<"0", DOT, "1", DOT, "1">>,
      <<"0", DOT, "1", DOT, "2">>,
      <<"0", DOT, "1", DOT, "1", "0">>,
      <<"v", "0", DOT, "1", DOT, "2">>,
      <<"0", DOT, "2">>,
      <<"0", DOT, "9", DOT, "9">>,
      <<"1">>,
      <<"1", DOT, "0", DOT, "0">>,
      <<"v", "1", DOT, "0", DOT, "1">>,
      <<"1", DOT, SUP2>> }

VersionInit ==
    /\ SummaryIdle
    /\ xirr_frame = XirrIdle
    /\ simple_frame = SimpleIdle
    /\ \E v1 \in VersionSet, v2 \in VersionSet : version_frame = VersionFrame("call", v1, v2)
    /\ CacheIdle
    /\ NotifyIdle

CompareVersions ==
    /\ version_frame.pc = "call"
    /\ version_frame' = [version_frame EXCEPT
                            !.pc = "returned",
                            !.result = compare_versions(version_frame.v1, version_frame.v2)]
    /\ UNCHANGED <<summaryVars, xirr_frame, simple_frame, cacheVars, notifyVars>>

VersionNext == CompareVersions

VersionSpec == VersionInit /\ [][VersionNext]_vars

-----------------------------------------------------------------------------
(* The /transactions endpoint and the day-keyed cache of the summary. *)

MaxRows == 2
MaxIds == 2
MaxDay == 2

\* The endpoint family: a fund bought for 100 two years ago and sold out for
\* 110 a year ago.
CacheTxSet ==
    { Tx(c1, BUY, D(2023, 1, 5), Quantity(ShareUnitsPerShare, 100, 0)),
      Tx(c1, SELL, D(2024, 1, 5), Quantity(ShareUnitsPerShare, 110, 0)) }

\* a row of fund_transactions: the record under its id
Row(id, t) ==
    [id |-> id, code |-> t.code, type |-> t.type, date |-> t.date,
     shares |-> t.shares, actual_amount |-> t.actual_amount, fee |-> t.fee]

\* ORDER BY date DESC, id DESC (the dates of the family are yyyy-mm-dd texts,
\* whose order as text is the order of their days)
LoadBefore(a, b) ==
    IF a.date = b.date THEN a.id > b.id
    ELSE ~KeyLeq(SortKeyOfDate(a.date), SortKeyOfDate(b.date))

RECURSIVE LoadInsert(_, _)
LoadInsert(row, rows) ==
    IF rows = <<>> THEN <<row>>
    ELSE IF LoadBefore(row, Head(rows)) THEN <<row>> \o rows
    ELSE <<Head(rows)>> \o LoadInsert(row, Tail(rows))

\* load_fund_transactions(): every row of the table, in that order
RECURSIVE load_fund_transactions(_)
load_fund_transactions(rows) ==
    IF rows = <<>> THEN <<>>
    ELSE LoadInsert(Head(rows), load_fund_transactions(Tail(rows)))

\* the positions of the rows with an id
RowsWithId(id) == { k \in DOMAIN fund_db : fund_db[k].id = id }

\* DELETE FROM fund_transactions WHERE id = ?
RECURSIVE WithoutId(_, _)
WithoutId(rows, id) ==
    IF rows = <<>> THEN <<>>
    ELSE IF Head(rows).id = id THEN WithoutId(Tail(rows), id)
    ELSE <<Head(rows)>> \o WithoutId(Tail(rows), id)

\* The cache entry 'fund_summary' holds the summary of one calendar day.
\* get_fund_cache(cache_key, today): the data stored for that day, else None
get_fund_cache(cache, date) ==
    IF cache # <<>> /\ cache.cache_date = date THEN cache.data ELSE <<>>

\* set_fund_cache(cache_key, summary, today): the entry is replaced
set_fund_cache(data, date) == [cache_date |-> date, data |-> data]

\* get_fund_cache_date(cache_key): the day of the entry, None (0) without one
get_fund_cache_date(cache) == IF cache = <<>> THEN 0 ELSE cache.cache_date

\* if cached: a value read from the cache is used when it is not None
CacheHit(cache, date) == get_fund_cache(cache, date) # <<>>

\* the locals of calculate_fund_summary when it is called with txs (pc_ "start")
\* and after it has returned to its caller (pc_ "idle")
SummaryBecomes(txs, pc_) ==
    /\ transactions' = txs
    /\ pc' = pc_
    /\ sorted_transactions' = <<>>
    /\ idx' = 0
    /\ holdings' = <<>>
    /\ realized_profit' = Rat(0)
    /\ dividend_total' = 0
    /\ buy_count' = 0
    /\ sell_count' = 0
    /\ dividend_count' = 0
    /\ total_fee' = 0
    /\ fund_transactions' = <<>>
    /\ prev' = EmptyReplay
    /\ fund_prices' = <<>>
    /\ market_value' = Rat(0)
    /\ fund_performance' = <<>>
    /\ solver_input' = <<>>
    /\ fetch_log' = <<>>
    /\ sold_funds_xirr' = <<>>
    /\ sold_input' = <<>>
    /\ xirr_results' = <<>>
    /\ overall_xirr' = XNone
    /\ summary' = <<>>

CacheInit ==
    /\ SummaryIdle
    /\ xirr_frame = XirrIdle
    /\ simple_frame = SimpleIdle
    /\ OthersIdle

\* POST /transactions: add_fund_transaction(data) inserts the record under a
\* fresh id; the cache entry is left as it is
Post(t) ==
    /\ request.pc = "none"
    /\ Len(fund_db) < MaxRows
    /\ last_id < MaxIds
    /\ fund_db' = Append(fund_db, Row(last_id + 1, t))
    /\ last_id' = last_id + 1
    /\ response' = <<>>
    /\ UNCHANGED <<fund_cache, today, request, summaryVars,
                   xirr_frame, simple_frame, version_frame, notifyVars>>

\* PUT /transactions: update_fund_transaction(id, data) overwrites the row with
\* that id, when there is one; the cache entry is left as it is
Put(id, t) ==
    /\ request.pc = "none"
    /\ RowsWithId(id) # {}
    /\ fund_db' = [k \in DOMAIN fund_db |->
                      IF fund_db[k].id = id THEN Row(id, t) ELSE fund_db[k]]
    /\ response' = <<>>
    /\ UNCHANGED <<last_id, fund_cache, today, request, summaryVars,
                   xirr_frame, simple_frame, version_frame, notifyVars>>

\* DELETE /transactions with an id: delete_fund_transaction(id); the cache
\* entry is left as it is
DeleteRow(id) ==
    /\ request.pc = "none"
    /\ RowsWithId(id) # {}
    /\ fund_db' = WithoutId(fund_db, id)
    /\ response' = <<>>
    /\ UNCHANGED <<last_id, fund_cache, today, request, summaryVars,
                   xirr_frame, simple_frame, version_frame, notifyVars>>

\* DELETE /transactions with clear_all: DELETE FROM fund_transactions
ClearAll ==
    /\ request.pc = "none"
    /\ fund_db' = <<>>
    /\ response' = <<>>
    /\ UNCHANGED <<last_id, fund_cache, today, request, summaryVars,
                   xirr_frame, simple_frame, version_frame, notifyVars>>

\* GET /transactions when get_cached_summary finds an entry of today: the
\* rows loaded now are answered with the cached summary
GetCached ==
    /\ request.pc = "none"
    /\ CacheHit(fund_cache, today)
    /\ response' = [transactions |-> load_fund_transactions(fund_db),
                    summary |-> get_fund_cache(fund_cache, today)]
    /\ UNCHANGED <<fund_db, last_id, fund_cache, today, request, summaryVars,
                   xirr_frame, simple_frame, version_frame, notifyVars>>

\* GET /transactions when there is no entry of today: get_cached_summary
\* loads the rows and calls calculate_fund_summary
GetCompute ==
    /\ request.pc = "none"
    /\ ~CacheHit(fund_cache, today)
    /\ request' = [pc |-> "GET", transactions |-> load_fund_transactions(fund_db)]
    /\ SummaryBecomes(load_fund_transactions(fund_db), "start")
    /\ response' = <<>>
    /\ UNCHANGED <<fund_db, last_id, fund_cache, today,
                   xirr_frame, simple_frame, version_frame, notifyVars>>

\* refresh_fund_cache(force): unless the entry is of today and force is not
\* set, get_cached_summary(use_cache=False) computes the summary anew
RefreshCache(force) ==
    /\ request.pc = "none"
    /\ force \/ get_fund_cache_date(fund_cache) # today
    /\ request' = [pc |-> "refresh", transactions |-> <<>>]
    /\ SummaryBecomes(load_fund_transactions(fund_db), "start")
    /\ response' = <<>>
    /\ UNCHANGED <<fund_db, last_id, fund_cache, today,
                   xirr_frame, simple_frame, version_frame, notifyVars>>

\* calculate_fund_summary is over: get_cached_summary stores what it returned
\* under today and hands it on; GET answers with it and the rows it loaded.
\* What calculate_fund_summary raised leaves the request without an answer.
SummaryComputed ==
    /\ request.pc \in {"GET", "refresh"}
    /\ pc \in {"done", "raised"}
    /\ fund_cache' = IF pc = "done" THEN set_fund_cache(summary, today) ELSE fund_cache
    /\ response' = IF request.pc = "GET" /\ pc = "done"
                   THEN [transactions |-> request.transactions, summary |-> summary]
                   ELSE <<>>
    /\ request' = RequestNone
    /\ SummaryBecomes(<<>>, "idle")
    /\ UNCHANGED <<fund_db, last_id, today,
                   xirr_frame, simple_frame, version_frame, notifyVars>>

\* midnight
NextDay ==
    /\ request.pc = "none"
    /\ today < MaxDay
    /\ today' = today + 1
    /\ UNCHANGED <<fund_db, last_id, fund_cache, request, response, summaryVars,
                   xirr_frame, simple_frame, version_frame, notifyVars>>

CacheNext ==
    \/ Next
    \/ \E t \in CacheTxSet : Post(t)
    \/ \E id \in 1..MaxIds, t \in CacheTxSet : Put(id, t)
    \/ \E id \in 1..MaxIds : DeleteRow(id)
    \/ ClearAll
    \/ GetCached
    \/ GetCompute
    \/ \E force \in BOOLEAN : RefreshCache(force)
    \/ SummaryComputed
    \/ NextDay

CacheSpec == CacheInit /\ [][CacheNext]_vars

-----------------------------------------------------------------------------
(* The price notifications: check_price_notifications, run by the thread    *)
(* notification_monitor and by the endpoint check_now.                      *)

MaxConditions == 2

Threads == {"monitor", "manual"}

\* a row of price_notifications
Condition(symbol, condition_type, threshold_value) ==
    [symbol |-> symbol, condition_type |-> condition_type,
     threshold_value |-> threshold_value, notification_sent |-> 0]

\* The conditions of the family: one of each kind, on two stocks.
ConditionSet ==
    { Condition("s1", "above_price", 10),
      Condition("s1", "below_price", 10),
      Condition("s2", "change_percent", -5),
      Condition("s2", "change_amount", 2) }

\* what the quote service says of a stock: up to 12 or down to 8
QuoteSet ==
    { [price |-> 12, change |-> 2, change_percent |-> 20],
      [price |-> 8, change |-> -2, change_percent |-> -20] }

\* the rows under their ids
WithIds(rows) ==
    [id \in DOMAIN rows |->
        [id |-> id, symbol |-> rows[id].symbol, condition_type |-> rows[id].condition_type,
         threshold_value |-> rows[id].threshold_value,
         notification_sent |-> rows[id].notification_sent]]

\* SELECT ... FROM price_notifications WHERE notification_sent = 0
Unsent(row) == row.notification_sent = 0

get_price_notifications == SelectSeq(price_notifications, Unsent)

\* set(n['symbol'] for n in notifications)
SymbolsOf(notifications) == { notifications[k].symbol : k \in DOMAIN notifications }

\* get_stock_realtime_data_batch(symbols), as price_data_map: a quote for some
\* of the symbols asked for
QuoteAnswers(symbols) == UNION { [S -> QuoteSet] : S \in SUBSET symbols }

\* the direction test of change_percent and change_amount
DirectionMet(threshold_value, current) ==
    /\ Abs(current) >= Abs(threshold_value)
    /\ \/ threshold_value > 0 /\ current >= threshold_value
       \/ threshold_value < 0 /\ current <= threshold_value

\* condition_met for a condition and the quote of its stock
ConditionMet(n, current_data) ==
    IF n.condition_type = "above_price" THEN current_data.price >= n.threshold_value
    ELSE IF n.condition_type = "below_price" THEN current_data.price <= n.threshold_value
    ELSE IF n.condition_type = "change_percent"
         THEN DirectionMet(n.threshold_value, current_data.change_percent)
    ELSE IF n.condition_type = "change_amount"
         THEN DirectionMet(n.threshold_value, current_data.change)
    ELSE FALSE

CheckFrame(pc_, notifications, price_data_map, i) ==
    [pc |-> pc_, notifications |-> notifications, price_data_map |-> price_data_map,
     i |-> i]

CheckIdle == CheckFrame("idle", <<>>, <<>>, 0)

\* UPDATE price_notifications SET notification_sent = 1 WHERE id = ?
mark_notification_sent(rows, id) ==
    [k \in DOMAIN rows |->
        IF rows[k].id = id THEN [rows[k] EXCEPT !.notification_sent = 1] ELSE rows[k]]

NotifyInit ==
    /\ SummaryIdle
    /\ xirr_frame = XirrIdle
    /\ simple_frame = SimpleIdle
    /\ version_frame = VersionIdle
    /\ CacheIdle
    /\ \E rows \in UNION { [1..n -> ConditionSet] : n \in 1..MaxConditions } :
          /\ price_notifications = WithIds(rows)
          /\ delivered = [id \in DOMAIN rows |-> 0]
    /\ check_frame = [th \in Threads |-> CheckIdle]

\* check_price_notifications begins: notification_monitor calls it with
\* trading_hours_only, the endpoint check_now without; in trading time, or
\* without the test, the unsent conditions are selected
CheckStart(th, trading) ==
    /\ check_frame[th].pc = "idle"
    /\ th = "manual" \/ trading
    /\ get_price_notifications # <<>>
    /\ check_frame' = [check_frame EXCEPT
                          ![th] = CheckFrame("fetch", get_price_notifications, <<>>, 0)]
    /\ UNCHANGED <<price_notifications, delivered, summaryVars, xirr_frame,
                   simple_frame, version_frame, cacheVars>>

\* the quotes of the symbols are fetched; an exception ends the check
FetchQuotes(th, raised) ==
    /\ check_frame[th].pc = "fetch"
    /\ IF raised THEN check_frame' = [check_frame EXCEPT ![th] = CheckIdle]
       ELSE \E answer \in QuoteAnswers(SymbolsOf(check_frame[th].notifications)) :
               check_frame' = [check_frame EXCEPT
                                  ![th] = CheckFrame("loop", check_frame[th].notifications,
                                                     answer, 1)]
    /\ UNCHANGED <<price_notifications, delivered, summaryVars, xirr_frame,
                   simple_frame, version_frame, cacheVars>>

\* the condition the loop is at
Notification(f) == f.notifications[f.i]

\* one iteration of the loop up to the webhook call: a condition without a
\* quote or not met is passed over; for one that is met
\* send_wechat_work_message posts the message, which is delivered (sent) or not
CheckCondition(th, sent) ==
    /\ check_frame[th].pc = "loop"
    /\ check_frame[th].i <= Len(check_frame[th].notifications)
    /\ IF /\ Notification(check_frame[th]).symbol \in DOMAIN check_frame[th].price_data_map
          /\ ConditionMet(Notification(check_frame[th]),
                          check_frame[th].price_data_map[Notification(check_frame[th]).symbol])
          /\ sent
       THEN /\ delivered' = [delivered EXCEPT ![Notification(check_frame[th]).id] = @ + 1]
            /\ check_frame' = [check_frame EXCEPT ![th].pc = "mark"]
       ELSE /\ check_frame' = [check_frame EXCEPT ![th].i = @ + 1]
            /\ UNCHANGED delivered
    /\ UNCHANGED <<price_notifications, summaryVars, xirr_frame,
                   simple_frame, version_frame, cacheVars>>

\* the message was sent: mark_notification_sent(notification['id'])
MarkSent(th) ==
    /\ check_frame[th].pc = "mark"
    /\ price_notifications' =
          mark_notification_sent(price_notifications, Notification(check_frame[th]).id)
    /\ check_frame' = [check_frame EXCEPT ![th].pc = "loop", ![th].i = @ + 1]
    /\ UNCHANGED <<delivered, summaryVars, xirr_frame,
                   simple_frame, version_frame, cacheVars>>

\* the loop is over: check_price_notifications returns
CheckReturn(th) ==
    /\ check_frame[th].pc = "loop"
    /\ check_frame[th].i > Len(check_frame[th].notifications)
    /\ check_frame' = [check_frame EXCEPT ![th] = CheckIdle]
    /\ UNCHANGED <<price_notifications, delivered, summaryVars, xirr_frame,
                   simple_frame, version_frame, cacheVars>>

NotifyNext ==
    \E th \in Threads :
        \/ \E trading \in BOOLEAN : CheckStart(th, trading)
        \/ \E raised \in BOOLEAN : FetchQuotes(th, raised)
        \/ \E sent \in BOOLEAN : CheckCondition(th, sent)
        \/ MarkSent(th)
        \/ CheckReturn(th)

NotifySpec == NotifyInit /\ [][NotifyNext]_vars

-----------------------------------------------------------------------------
(* Vocabulary of the properties. *)

\* a record has just been replayed: prev is the loop's state before it
Stepped == pc = "replay" /\ idx >= 1

LastTx == sorted_transactions[idx]

LastCode == Zfill(LastTx.code)

\* the holding of a code, a code that is not a key counting as no shares at no cost
Held(h, c) == IF c \in DOMAIN h THEN h[c] ELSE NewHolding

OthersUnchanged(c) ==
    \A k \in (DOMAIN holdings \cup DOMAIN prev.holdings) \ {c} :
        /\ k \in DOMAIN holdings
        /\ k \in DOMAIN prev.holdings
        /\ holdings[k] = prev.holdings[k]

ReplayOver == pc \in {"sold", "performance", "overall", "done", "raised"} /\ transactions # <<>>

PermFns(n) == { p \in [1..n -> 1..n] : \A i, j \in 1..n : p[i] = p[j] => i = j }

ListPermutations(s) == { [i \in DOMAIN s |-> s[p[i]]] : p \in PermFns(Len(s)) }

CodesOf(txs) == { Zfill(txs[k].code) : k \in DOMAIN txs }

-----------------------------------------------------------------------------
(* C1.  Replay determinism: for a fixed set of records, sorting and        *)
(* replaying any permutation of the input list gives the same holdings map *)
(* and the same realized profit as the run did.                            *)
C1_ReplayDeterminism ==
    ReplayOver =>
        \A q \in ListPermutations(transactions) :
            LET r == ReplayAll(EmptyReplay, Sorted(q))
            IN  r.holdings = holdings /\ r.realized_profit = realized_profit

-----------------------------------------------------------------------------
(* C2.  Closed-position invariant: after the replay, an instrument whose   *)
(* Sell shares equal its Buy plus reinvested-Dividend shares, within the   *)
(* threshold, is not a key of the holdings map.                            *)
IsSale(t, c) == Zfill(t.code) = c /\ t.type = SELL

IsAcquisition(t, c) ==
    Zfill(t.code) = c /\ (t.type = BUY \/ (t.type = DIVIDEND /\ t.shares > 0))

\* the shares sold less the shares bought or reinvested, over a list
RECURSIVE NetSold(_, _)
NetSold(txs, c) ==
    IF txs = <<>> THEN 0
    ELSE (IF IsSale(Head(txs), c) THEN Head(txs).shares
          ELSE IF IsAcquisition(Head(txs), c) THEN -Head(txs).shares
          ELSE 0) + NetSold(Tail(txs), c)

C2_ClosedPosition ==
    ReplayOver =>
        \A c \in CodesOf(transactions) :
            Abs(NetSold(transactions, c)) <= CloseThreshold
                => c \notin DOMAIN holdings

-----------------------------------------------------------------------------
(* C3.  Cost non-negativity: after every prefix of a replay whose records  *)
(* have shares >= 0 and whose Sells never ask for more than is held at     *)
(* that point, every holding has shares >= 0 and cost >= 0.                *)
RECURSIVE NoOversell(_, _)
NoOversell(st, txs) ==
    IF txs = <<>> THEN TRUE
    ELSE LET t == Head(txs)
         IN  /\ t.shares >= 0
             /\ t.type = SELL => t.shares <= Held(st.holdings, Zfill(t.code)).shares
             /\ NoOversell(ReplayRecord(st, t), Tail(txs))

HappyPrefix == NoOversell(EmptyReplay, SubSeq(sorted_transactions, 1, idx))

C3_CostNonNegative ==
    (pc = "replay" /\ HappyPrefix) =>
        \A c \in DOMAIN holdings :
            holdings[c].shares >= 0 /\ RLeq(Rat(0), holdings[c].cost)

\* a Sell of part of a holding bought at a signed amount has been replayed
C3_Witness ==
    /\ Stepped /\ HappyPrefix
    /\ LastTx.type = SELL
    /\ LastCode \in DOMAIN holdings
    /\ holdings[LastCode].shares > 0
    /\ RLess(Rat(0), holdings[LastCode].cost)
    /\ RLess(holdings[LastCode].cost, prev.holdings[LastCode].cost)

-----------------------------------------------------------------------------
(* C4.  Normal-path Sell: a Sell of s shares replayed on a holding of      *)
(* S > 0 shares at cost C adds (abs(amount) - fee) - s*C/S to the realized *)
(* profit and leaves every other holding alone.  As claimed, the holding   *)
(* then has S - s shares at cost C - s*C/S; as amended, it has them when   *)
(* S - s is above the threshold and is removed from the map otherwise.     *)
NormalSell == Stepped /\ LastTx.type = SELL /\ Held(prev.holdings, LastCode).shares > 0

SoldCostOfLast ==
    LET h == prev.holdings[LastCode]
    IN  RDiv(RMul(Rat(LastTx.shares), h.cost), Rat(h.shares))

NormalSellProfit ==
    realized_profit =
        RAdd(prev.realized_profit,
             RSub(Rat(Abs(LastTx.actual_amount) - LastTx.fee), SoldCostOfLast))

RemainderOfLast ==
    [shares |-> prev.holdings[LastCode].shares - LastTx.shares,
     cost   |-> RSub(prev.holdings[LastCode].cost, SoldCostOfLast)]

C4_NormalSell_Original ==
    NormalSell =>
        /\ NormalSellProfit
        /\ Held(holdings, LastCode) = RemainderOfLast
        /\ OthersUnchanged(LastCode)

C4_NormalSell ==
    NormalSell =>
        /\ NormalSellProfit
        /\ IF RemainderOfLast.shares > CloseThreshold
           THEN LastCode \in DOMAIN holdings /\ holdings[LastCode] = RemainderOfLast
           ELSE LastCode \notin DOMAIN holdings
        /\ OthersUnchanged(LastCode)

\* a Sell of some shares has left part of the holding in the map
C4_Witness ==
    /\ NormalSell
    /\ LastTx.shares > 0
    /\ LastCode \in DOMAIN holdings
    /\ holdings[LastCode].shares > CloseThreshold

-----------------------------------------------------------------------------
-----------------------------------------------------------------------------
(* C6.  Defensive Sell: a Sell replayed while the holding's shares are     *)
(* <= 0 adds its profit contribution, the sell income less the sold cost   *)
(* at the absolute cost/shares ratio, to the realized profit, and leaves   *)
(* the holding's shares and cost as they were.  With no shares and no cost *)
(* held there is no cost to take off, and the contribution is the income.  *)
DefensiveSell == Stepped /\ LastTx.type = SELL /\ Held(prev.holdings, LastCode).shares <= 0

C6_DefensiveSell ==
    DefensiveSell =>
        LET h      == Held(prev.holdings, LastCode)
            income == Rat(Abs(LastTx.actual_amount) - LastTx.fee)
        IN  /\ Held(holdings, LastCode) = h
            /\ h.shares < 0 =>
                   realized_profit =
                       RAdd(prev.realized_profit,
                            RSub(income, RMul(Rat(LastTx.shares),
                                              RAbs(RDiv(h.cost, Rat(h.shares))))))
            /\ (h.shares = 0 /\ h.cost = Rat(0)) =>
                   realized_profit = RAdd(prev.realized_profit, income)

-----------------------------------------------------------------------------
(* C7.  Cash dividend: replaying a Dividend with shares = 0 adds           *)
(* abs(amount) to the dividend total and to the realized profit, and the   *)
(* holdings map stays exactly as it was.                                   *)
C7_CashDividend ==
    (Stepped /\ LastTx.type = DIVIDEND /\ LastTx.shares = 0) =>
        /\ dividend_total = prev.dividend_total + Abs(LastTx.actual_amount)
        /\ realized_profit = RAdd(prev.realized_profit, Rat(Abs(LastTx.actual_amount)))
        /\ holdings = prev.holdings

\* a cash dividend of a fund that is held
C7_Witness ==
    /\ Stepped /\ LastTx.type = DIVIDEND /\ LastTx.shares = 0
    /\ Held(prev.holdings, LastCode).shares > 0
    /\ LastTx.actual_amount # 0

-----------------------------------------------------------------------------
(* C8.  Reinvested dividend: replaying a Dividend with shares > 0 changes  *)
(* the holdings as a Buy of the same shares and amount would (shares up by *)
(* the record's shares, cost up by abs(amount)) and leaves the realized    *)
(* profit alone.  As claimed, the dividend total stays as it was too; as   *)
(* amended, the dividend total goes up by abs(amount).                     *)
Reinvested == Stepped /\ LastTx.type = DIVIDEND /\ LastTx.shares > 0

AsBuy == ReplayRecord(prev, [LastTx EXCEPT !.type = BUY])

ReinvestedLikeBuy ==
    /\ holdings = AsBuy.holdings
    /\ holdings[LastCode].shares = Held(prev.holdings, LastCode).shares + LastTx.shares
    /\ holdings[LastCode].cost =
            RAdd(Held(prev.holdings, LastCode).cost, Rat(Abs(LastTx.actual_amount)))
    /\ realized_profit = AsBuy.realized_profit
    /\ realized_profit = prev.realized_profit

-----------------------------------------------------------------------------
(* C9.  Replay ordering: the list that is replayed is the stable sort of   *)
(* the input by calendar date, ascending, the records whose date is absent *)
(* or is no calendar date last; records of one date, and the undated ones, *)
(* keep their input order; time of day and separator play no part.         *)
CalendarDate(t) == parse_date(t.date)

\* a sorts strictly before b
KeyLess(a, b) == ~a.inf /\ (b.inf \/ a.v < b.v)

IsStableSortByDate(out, in) ==
    \E p \in PermFns(Len(in)) :
        /\ out = [i \in DOMAIN in |-> in[p[i]]]
        /\ \A i, j \in DOMAIN in :
              i < j =>
                \/ KeyLess(CalendarDate(in[p[i]]), CalendarDate(in[p[j]]))
                \/ /\ CalendarDate(in[p[i]]) = CalendarDate(in[p[j]])
                   /\ p[i] < p[j]

C9_ReplayOrdering ==
    (pc # "start" /\ transactions # <<>>) =>
        IsStableSortByDate(sorted_transactions, transactions)

-----------------------------------------------------------------------------
(* C10.  Terminal flow: for a fund that is held with shares > 0 after the  *)
(* replay and has a reference price p, the cash flows handed to the solver *)
(* end with the one terminal flow, and it is the held shares times p.      *)
PriceOf(c) ==
    IF \E k \in DOMAIN fund_prices : fund_prices[k].code = c
    THEN NetWorthOf(fund_prices[CHOOSE k \in DOMAIN fund_prices : fund_prices[k].code = c])
    ELSE 0

C10_TerminalFlow ==
    pc \in {"overall", "done"} =>
        \A c \in DOMAIN holdings :
            (holdings[c].shares > 0 /\ PriceOf(c) # 0 /\ c \in DOMAIN solver_input) =>
                LET flows == solver_input[c]
                    n     == Len(flows)
                IN  /\ flows[n].terminal
                    /\ flows[n].cf = RMul(SharesOf(holdings[c].shares), Rat(PriceOf(c)))
                    /\ \A k \in 1..(n - 1) : ~flows[k].terminal

-----------------------------------------------------------------------------
(* C11.  No terminal flow for closed positions: for every fund that occurs *)
(* in the transactions and is not in the holdings map after the replay,    *)
(* the cash flows handed to the solver for its annualized return hold no   *)
(* terminal market-value flow, whatever the price service answered.        *)
C11_NoTerminalFlowWhenClosed ==
    pc \in {"performance", "overall", "done"} =>
        \A c \in DOMAIN sold_input :
            \A k \in DOMAIN sold_input[c] : ~sold_input[c][k].terminal

-----------------------------------------------------------------------------
(* Vocabulary of the solver properties. *)

BigRatOf(n, d) == BigRat(BigOfInt(n), NatOfInt(d))

BigRatAdd(a, b) ==
    BigRat(BigAdd(BigMul(a.num, BigInt(FALSE, b.den)), BigMul(b.num, BigInt(FALSE, a.den))),
           NatMul(a.den, b.den))

BigRatSub(a, b) == BigRatAdd(a, BigRat(BigNeg(b.num), b.den))

BigRatEq(a, b) == BigSign(BigRatSub(a, b).num) = 0

BigRatLeq(a, b) == BigSign(BigRatSub(a, b).num) <= 0

\* abs(x) < 1 / inv
AbsBelow(x, inv) == NatLess(NatMul(x.num.mag, NatOfInt(inv)), x.den)

\* the solver's tolerance, 1e-6
SolverTol == BigRatOf(1, 1000000)

XirrReturned == xirr_frame.pc = "returned"

XirrResult == BigRat(xirr_frame.result.num, xirr_frame.result.den)

\* the call got past the guards: its flows have their times in years
PastGuards == xirr_frame.days # <<>>

NpvAt(rate) == xnpv(rate, xirr_frame.cashflows, xirr_frame.days)

\* a rate was returned by the bisection loop
FromBisection == XirrReturned /\ ~xirr_frame.result.none /\ xirr_frame.iter >= 1

\* -100 on a day and +110 exactly one year later
HundredThenHundredTen ==
    /\ xirr_frame.cashflows = <<Rat(-100), Rat(110)>>
    /\ xirr_frame.dates = <<Key(20230105), Key(20240105)>>

-----------------------------------------------------------------------------
(* C12.  Solver guards: xirr returns a rate only for a series of at least  *)
(* 2 flows with as many dates as flows and a sum > 0; for a series of      *)
(* fewer than 2 flows or with a sum <= 0 it returns None, and no NPV was   *)
(* evaluated.                                                              *)
C12_SolverGuards ==
    LET cashflows == xirr_frame.cashflows
        rejected  == Len(cashflows) < 2 \/ RLeq(RSum(cashflows), Rat(0))
    IN  /\ rejected => xirr_frame.evals = 0
        /\ XirrReturned =>
              /\ rejected => xirr_frame.result.none
              /\ ~xirr_frame.result.none =>
                    /\ Len(cashflows) >= 2
                    /\ Len(cashflows) = Len(xirr_frame.dates)
                    /\ RLess(Rat(0), RSum(cashflows))

\* xirr([-100, +50], two dates) has returned
C12_Witness ==
    /\ XirrReturned
    /\ xirr_frame.cashflows = <<Rat(-100), Rat(50)>>
    /\ Len(xirr_frame.dates) = 2
    /\ xirr_frame.result.none

-----------------------------------------------------------------------------
(* C13.  Solver accuracy: for -100 and +110 one year later xirr returns a  *)
(* rate within the tolerance of 0.10; as first stated, whenever the        *)
(* bisection returns a rate, the NPV changes sign within the tolerance of  *)
(* that rate.                                                              *)
NearTenPercent ==
    HundredThenHundredTen /\ XirrReturned =>
        /\ ~xirr_frame.result.none
        /\ AbsBelow(BigRatSub(XirrResult, BigRatOf(1, 10)), 1000000)

SignChangeNearResult ==
    BigSign(NpvAt(BigRatSub(XirrResult, SolverTol)).num)
        * BigSign(NpvAt(BigRatAdd(XirrResult, SolverTol)).num) <= 0

C13_SolverAccuracy_Original ==
    /\ NearTenPercent
    /\ FromBisection => SignChangeNearResult

(* C13, as the code has it: for -100 and +110 one year later xirr returns  *)
(* a rate within the tolerance of 0.10; whenever the bisection returns a   *)
(* rate, either the NPV at that rate is within the tolerance of zero, or   *)
(* the rate is an end of a bracket narrower than the tolerance across      *)
(* which the NPV changes sign.                                             *)
C13_SolverAccuracy ==
    /\ NearTenPercent
    /\ FromBisection =>
          \/ AbsBelow(NpvAt(XirrResult), 1000000)
          \/ /\ BigSign(BigRatSub(xirr_frame.rate_high, xirr_frame.rate_low).num) > 0
             /\ AbsBelow(BigRatSub(xirr_frame.rate_high, xirr_frame.rate_low), 1000000)
             /\ BigSign(NpvAt(xirr_frame.rate_low).num)
                    * BigSign(NpvAt(xirr_frame.rate_high).num) <= 0
             /\ \/ BigRatEq(XirrResult, xirr_frame.rate_low)
                \/ BigRatEq(XirrResult, xirr_frame.rate_high)

\* the bisection has returned a rate for -100 and +110 one year later
C13_Witness == HundredThenHundredTen /\ FromBisection

-----------------------------------------------------------------------------
(* C14.  Unbracketed root: when the NPV has the same strict sign at both   *)
(* ends of [-0.99, 10.0] and is within the tolerance of zero at neither,   *)
(* xirr widens the bracket once, to [-0.9999, 1000.0]; when the NPV has    *)
(* the same strict sign at both ends of that bracket too, it returns None. *)
UnbracketedIn(low, high) ==
    /\ BigSign(NpvAt(low).num) * BigSign(NpvAt(high).num) > 0
    /\ ~AbsBelow(NpvAt(low), 1000000)
    /\ ~AbsBelow(NpvAt(high), 1000000)

C14_Low == BigRatOf(-9999, 10000)

C14_High == BigRatOf(1000, 1)

C14_UnbracketedRoot ==
    (PastGuards /\ xirr_frame.pc # "bounds"
        /\ UnbracketedIn(BigRatOf(-99, 100), BigRatOf(10, 1))) =>
        /\ xirr_frame.widened = (IF xirr_frame.pc = "widen" THEN 0 ELSE 1)
        /\ (xirr_frame.pc # "widen" /\ xirr_frame.iter = 0) =>
              /\ BigRatEq(xirr_frame.rate_low, C14_Low)
              /\ BigRatEq(xirr_frame.rate_high, C14_High)
        /\ (XirrReturned /\ BigSign(NpvAt(C14_Low).num) * BigSign(NpvAt(C14_High).num) > 0) =>
              /\ xirr_frame.result.none
              /\ xirr_frame.iter = 0
        /\ (XirrReturned /\ ~xirr_frame.result.none) =>
              /\ BigRatLeq(C14_Low, XirrResult)
              /\ BigRatLeq(XirrResult, C14_High)

\* xirr has widened the bracket, found no change of sign and returned None
C14_Witness ==
    /\ PastGuards
    /\ XirrReturned
    /\ UnbracketedIn(BigRatOf(-99, 100), BigRatOf(10, 1))
    /\ UnbracketedIn(C14_Low, C14_High)
    /\ xirr_frame.widened = 1
    /\ xirr_frame.result.none

-----------------------------------------------------------------------------
(* Vocabulary of the fallback properties. *)

SimpleReturned == simple_frame.pc = "returned"

HasDate(t) == parse_date(t.date) # NONE

\* sum of abs(amount) + fee over the Buys of a history
RECURSIVE InvestedInBuys(_)
InvestedInBuys(txs) ==
    IF txs = <<>> THEN 0
    ELSE (IF Head(txs).type = BUY THEN Abs(Head(txs).actual_amount) + Head(txs).fee ELSE 0)
         + InvestedInBuys(Tail(txs))

\* days from the first to the last dated event of a history that has one
SpanDays(txs) ==
    LET dated == SelectSeq(txs, HasDate)
    IN  DayNumber(parse_date(dated[Len(dated)].date)) - DayNumber(parse_date(dated[1].date))

-----------------------------------------------------------------------------
(* C15.  Fallback on a single buy: for a held fund whose history is one    *)
(* Buy of 100 (fee 0) and whose market value is 120 one year after the     *)
(* Buy, calculate_simple_return returns a positive number close to 0.20,   *)
(* not None.                                                               *)
C15_FallbackSingleBuy ==
    ( /\ SimpleReturned
      /\ simple_frame.fund_trans = <<Tx(c1, BUY, D(2023, 1, 5), Quantity(10, 100, 0))>>
      /\ simple_frame.current_market_value = Rat(120)
      /\ ~simple_frame.is_sold ) =>
        /\ ~simple_frame.result.none
        /\ RLess(Rat(0), simple_frame.result.value)
        /\ RLeq(RAbs(RSub(simple_frame.result.value, Norm(1, 5))), Norm(1, 100))

-----------------------------------------------------------------------------
(* C16.  Fallback guards: calculate_simple_return returns None exactly     *)
(* when the history is empty, or no record has a date that parses, or the  *)
(* sum of abs(amount) + fee over the Buys is <= 0, or the first and the    *)
(* last dated event are <= 0 years apart; otherwise it returns a number.   *)
C16_FallbackGuards ==
    SimpleReturned =>
        LET fund_trans == simple_frame.fund_trans
        IN  simple_frame.result.none <=>
                \/ fund_trans = <<>>
                \/ \A k \in DOMAIN fund_trans : ~HasDate(fund_trans[k])
                \/ InvestedInBuys(fund_trans) <= 0
                \/ SpanDays(fund_trans) <= 0

-----------------------------------------------------------------------------
(* Vocabulary of the valuation properties. *)

Range(f) == { f[k] : k \in DOMAIN f }

\* calculate_fund_summary has returned a summary of a list that is not empty
SummaryReturned == pc = "done" /\ transactions # <<>>

\* the entries the summary holds for a code, among the held and the sold funds
EntriesOf(c) ==
    { e \in Range(summary.fund_performance) \cup Range(summary.sold_funds_xirr) : e.code = c }

\* a fund that is held with shares > 0 and for which the lookup of the
\* performance block gave no price
UnknownValuation(c) == c \in DOMAIN holdings /\ holdings[c].shares > 0 /\ PriceOf(c) = 0

\* the totals the replay of the sorted list gives, whatever the price service says
ReplayOfInput == ReplayAll(EmptyReplay, Sorted(transactions))

-----------------------------------------------------------------------------
(* C17.  Single valuation lookup: in one run of calculate_fund_summary     *)
(* fetch_fund_price_batch_sync is called at most once, and a call asks for *)
(* the codes of the held and of the sold funds together, so that every     *)
(* price the run uses comes from the one answer.                           *)
C17_SingleValuationLookup ==
    /\ Len(fetch_log) <= 1
    /\ \A k \in DOMAIN fetch_log :
          Range(fetch_log[k]) = DOMAIN holdings \cup sold_fund_codes

-----------------------------------------------------------------------------
(* C18.  Valuation independence: whatever the price service answers, an    *)
(* empty answer included, calculate_fund_summary returns and does not      *)
(* raise, and the total_shares, total_cost, realized_profit,               *)
(* dividend_total, total_fee and the three counts it reports are the ones  *)
(* the replay of the list gives.                                           *)
C18_ValuationIndependence ==
    /\ pc # "raised"
    /\ SummaryReturned =>
          LET st == ReplayOfInput
          IN  /\ holdings = st.holdings
              /\ summary.total_shares = Round2(SharesOf(SumShares(CodeList(DOMAIN holdings))))
              /\ summary.total_cost = Round2(RAbs(SumCost(CodeList(DOMAIN holdings))))
              /\ summary.realized_profit = Round2(st.realized_profit)
              /\ summary.dividend_total = Round2(Rat(st.dividend_total))
              /\ summary.total_fee = Round2(Rat(st.total_fee))
              /\ summary.buy_count = st.buy_count
              /\ summary.sell_count = st.sell_count
              /\ summary.dividend_count = st.dividend_count

-----------------------------------------------------------------------------
(* C19.  Unknown valuation is not zero: when the lookup fails or gives no  *)
(* price for a fund that is held, the summary has an entry for the fund    *)
(* whose return is the missing-value marker, and the market value of the   *)
(* portfolio is not reported as the number 0.                              *)
C19_UnknownValuationNotZero ==
    SummaryReturned =>
        \A c \in DOMAIN holdings :
            UnknownValuation(c) =>
                /\ \E e \in Range(summary.fund_performance) : e.code = c /\ e.xirr.none
                /\ summary.market_value # Rat(0)

-----------------------------------------------------------------------------
(* C20.  Zero is a value: the return the summary reports for a fund, or    *)
(* for the portfolio, is the missing-value marker exactly when neither the *)
(* solver nor the fallback produced a number; a return of exactly 0 is     *)
(* reported as the number 0.                                               *)
C20_ZeroIsAValue ==
    SummaryReturned =>
        /\ \A c \in DOMAIN xirr_results :
              \A e \in EntriesOf(c) :
                  /\ e.xirr.none <=> xirr_results[c].none
                  /\ (~xirr_results[c].none /\ BigSign(xirr_results[c].num) = 0) =>
                         (~e.xirr.none /\ e.xirr.value = Rat(0))
        /\ summary.overall_xirr.none <=> overall_xirr.none

-----------------------------------------------------------------------------
(* Vocabulary of the parsing property. *)

\* the record with every quantity that is not a number read as 0
Zeroed(t) ==
    Tx(t.code, t.type, t.date,
       Quantity(IF "shares" \in NonNumeric(t) THEN 0 ELSE t.shares,
                IF "actual_amount" \in NonNumeric(t) THEN 0 ELSE t.actual_amount,
                IF "fee" \in NonNumeric(t) THEN 0 ELSE t.fee))

ZeroedList(txs) == [k \in DOMAIN txs |-> Zeroed(txs[k])]

HasText == \E k \in DOMAIN transactions : FloatRaises(transactions[k])

-----------------------------------------------------------------------------
(* C21.  Parse-error isolation: a record whose shares, actualAmount or fee *)
(* is present but not a number never makes calculate_fund_summary raise,   *)
(* and when the replay of a list with such a record is over, the holdings  *)
(* and the running totals are the ones the replay gives for the list with  *)
(* that quantity read as 0.                                                *)
C21_ParseErrorIsolation ==
    HasText =>
        /\ pc # "raised"
        /\ pc \in {"sold", "performance", "overall", "done"} =>
              LET st == ReplayAll(EmptyReplay, Sorted(ZeroedList(transactions)))
              IN  /\ holdings = st.holdings
                  /\ realized_profit = st.realized_profit
                  /\ dividend_total = st.dividend_total
                  /\ total_fee = st.total_fee
                  /\ buy_count = st.buy_count
                  /\ sell_count = st.sell_count
                  /\ dividend_count = st.dividend_count

-----------------------------------------------------------------------------
(* Vocabulary of the version property. *)

\* a version written as integers separated by dots, with or without a prefix v
Unprefixed(version) ==
    IF version # <<>> /\ Head(version) = "v" THEN Tail(version) ELSE version

WellFormedVersion(version) ==
    LET parts == SplitDots(Unprefixed(version), <<>>)
    IN  \A k \in DOMAIN parts :
            parts[k] # <<>> /\ \A j \in DOMAIN parts[k] : IsAsciiDigit(parts[k][j])

\* the integers of a well-formed version
ReadVersion(version) ==
    LET parts == SplitDots(Unprefixed(version), <<>>)
    IN  [k \in DOMAIN parts |-> IntOf(parts[k])]

\* b is strictly greater than a in the component-wise order, a missing
\* component read as 0
StrictlyNewer(a, b) ==
    LET n == IF Len(a) > Len(b) THEN Len(a) ELSE Len(b)
    IN  \E i \in 1..n :
            /\ PartOr0(b, i) > PartOr0(a, i)
            /\ \A j \in 1..(i - 1) : PartOr0(b, j) = PartOr0(a, j)

VersionReturned == version_frame.pc = "returned"

-----------------------------------------------------------------------------
(* C22.  Version comparison: for two versions written as integers          *)
(* separated by dots, with or without the prefix v, compare_versions       *)
(* returns True exactly when the remote one is strictly greater than the   *)
(* local one, component by component as numbers and a missing component    *)
(* read as 0; and for any two versions, compare_versions(a, b) and         *)
(* compare_versions(b, a) are never both True.                             *)
C22_VersionComparison ==
    VersionReturned =>
        /\ (WellFormedVersion(version_frame.v1) /\ WellFormedVersion(version_frame.v2)) =>
              (version_frame.result <=>
                  StrictlyNewer(ReadVersion(version_frame.v1), ReadVersion(version_frame.v2)))
        /\ ~(version_frame.result /\ compare_versions(version_frame.v2, version_frame.v1))

\* 0.1.10 is found newer than 0.1.2
C22_Witness ==
    /\ VersionReturned
    /\ version_frame.v1 = <<"0", DOT, "1", DOT, "2">>
    /\ version_frame.v2 = <<"0", DOT, "1", DOT, "1", "0">>
    /\ version_frame.result

-----------------------------------------------------------------------------
(* Vocabulary of the average-cost property. *)

\* x / n = y / m, for rationals x, y and whole numbers n, m that are not 0
SameRatio(x, n, y, m) == RMul(x, Rat(m)) = RMul(y, Rat(n))

\* the shares and the amounts of the Buys and reinvested Dividends of a code
\* since its position was last opened, over a list replayed from st
RECURSIVE AcquiredSince(_, _, _, _)
AcquiredSince(st, txs, c, acc) ==
    IF txs = <<>> THEN acc
    ELSE LET t    == Head(txs)
             next == ReplayRecord(st, t)
         IN  AcquiredSince(next, Tail(txs), c,
                 IF IsAcquisition(t, c)
                 THEN [shares |-> acc.shares + t.shares,
                       amount |-> acc.amount + Abs(t.actual_amount)]
                 ELSE IF c \in DOMAIN next.holdings THEN acc
                 ELSE [shares |-> 0, amount |-> 0])

AcquiredOf(c) ==
    AcquiredSince(EmptyReplay, SubSeq(sorted_transactions, 1, idx), c,
                  [shares |-> 0, amount |-> 0])

\* a normal-path Sell of s shares from a holding of S > s > 0 shares
PartialSell == NormalSell /\ 0 < LastTx.shares /\ LastTx.shares < prev.holdings[LastCode].shares

\* a Buy or a reinvested Dividend on top of a holding with shares > 0
Acquisition ==
    /\ Stepped
    /\ IsAcquisition(LastTx, LastCode)
    /\ Held(prev.holdings, LastCode).shares > 0

\* a Sell of the code has been replayed before the last record
SoldBefore(c) == \E k \in 1..(idx - 1) : IsSale(sorted_transactions[k], c)

-----------------------------------------------------------------------------
(* C23.  Average cost is preserved by selling.  As claimed: a normal-path  *)
(* Sell of s shares from a holding of S > s > 0 shares at cost C leaves a  *)
(* holding whose cost/shares is C/S, and after any sequence of Buys,       *)
(* reinvested Dividends and non-overselling Sells the cost/shares of a     *)
(* holding with shares > 0 is the share-weighted average of the prices of  *)
(* all the acquisitions since the position was last opened.  As amended:   *)
(* such a Sell leaves cost/shares at C/S when S - s is above the closing   *)
(* threshold and removes the holding otherwise; an acquisition of s shares *)
(* for the amount a moves the ratio of a holding of S > 0 shares at cost C *)
(* to (C + abs(a)) / (S + s); and the ratio is the average over all the    *)
(* acquisitions as long as no Sell has been replayed since the opening.    *)
C23_AverageCost_Original ==
    /\ PartialSell =>
          /\ LastCode \in DOMAIN holdings
          /\ SameRatio(holdings[LastCode].cost, holdings[LastCode].shares,
                       prev.holdings[LastCode].cost, prev.holdings[LastCode].shares)
    /\ (pc = "replay" /\ HappyPrefix) =>
          \A c \in DOMAIN holdings :
              holdings[c].shares > 0 =>
                  SameRatio(holdings[c].cost, holdings[c].shares,
                            Rat(AcquiredOf(c).amount), AcquiredOf(c).shares)

C23_AverageCost ==
    /\ PartialSell =>
          IF prev.holdings[LastCode].shares - LastTx.shares > CloseThreshold
          THEN /\ LastCode \in DOMAIN holdings
               /\ SameRatio(holdings[LastCode].cost, holdings[LastCode].shares,
                            prev.holdings[LastCode].cost, prev.holdings[LastCode].shares)
          ELSE LastCode \notin DOMAIN holdings
    /\ Acquisition =>
          SameRatio(holdings[LastCode].cost, holdings[LastCode].shares,
                    RAdd(prev.holdings[LastCode].cost, Rat(Abs(LastTx.actual_amount))),
                    prev.holdings[LastCode].shares + LastTx.shares)
    /\ (pc = "replay" /\ HappyPrefix) =>
          \A c \in DOMAIN holdings :
              (holdings[c].shares > 0 /\ ~IsSale(LastTx, c) /\ ~SoldBefore(c)) =>
                  SameRatio(holdings[c].cost, holdings[c].shares,
                            Rat(AcquiredOf(c).amount), AcquiredOf(c).shares)

\* a Buy at another price has been replayed on what a partial Sell left of a
\* holding: the ratio is no longer the average over all the acquisitions
C23_Witness ==
    /\ Acquisition
    /\ HappyPrefix
    /\ idx >= 3
    /\ IsSale(sorted_transactions[idx - 1], LastCode)
    /\ LastCode \in DOMAIN holdings
    /\ ~SameRatio(holdings[LastCode].cost, holdings[LastCode].shares,
                  Rat(AcquiredOf(LastCode).amount), AcquiredOf(LastCode).shares)

-----------------------------------------------------------------------------
(* Vocabulary of the running totals. *)

RECURSIVE SumFee(_)
SumFee(txs) == IF txs = <<>> THEN 0 ELSE Head(txs).fee + SumFee(Tail(txs))

CountOf(txs, kind) == Cardinality({ k \in DOMAIN txs : txs[k].type = kind })

\* the replay loop has run over the whole list
Replayed_All == pc \in {"sold", "performance", "overall", "done"} /\ transactions # <<>>

-----------------------------------------------------------------------------
(* C24.  Running totals: after the replay, total_fee is the sum of the fee *)
(* of every record, whatever its kind and whatever branch handled it, the  *)
(* three counts are the numbers of records of each kind, and they add up   *)
(* to the number of input records when every record is a Buy, a Sell or a  *)
(* Dividend; the summary returned reports these totals and the number of   *)
(* input records as trade_count.                                           *)
C24_RunningTotals ==
    /\ Replayed_All =>
          /\ total_fee = SumFee(transactions)
          /\ buy_count = CountOf(transactions, BUY)
          /\ sell_count = CountOf(transactions, SELL)
          /\ dividend_count = CountOf(transactions, DIVIDEND)
          /\ (\A k \in DOMAIN transactions : transactions[k].type \in Kinds) =>
                 buy_count + sell_count + dividend_count = Len(transactions)
    /\ SummaryReturned =>
          /\ summary.total_fee = Round2(Rat(SumFee(transactions)))
          /\ summary.buy_count = CountOf(transactions, BUY)
          /\ summary.sell_count = CountOf(transactions, SELL)
          /\ summary.dividend_count = CountOf(transactions, DIVIDEND)
          /\ summary.trade_count = Len(transactions)

\* a summary is returned for a Dividend with a fee that followed a Sell with a
\* fee handled by the oversold branch
C24_Witness ==
    /\ SummaryReturned
    /\ Len(sorted_transactions) = 2
    /\ sorted_transactions[1].type = SELL /\ sorted_transactions[1].fee > 0
    /\ sorted_transactions[2].type = DIVIDEND /\ sorted_transactions[2].fee > 0
    /\ summary.total_fee = Rat(2)
    /\ summary.trade_count = 2

-----------------------------------------------------------------------------
(* Vocabulary of the cash-flow properties. *)

\* the flows of a series but the terminal one
TransactionFlows(flows) == SelectSeq(flows, LAMBDA f : ~f.terminal)

\* one flow per Buy, per Sell and per Dividend with shares = 0, in the order of
\* the records, each with the date of its record
RECURSIVE MappedFlows(_)
MappedFlows(txs) ==
    IF txs = <<>> THEN <<>>
    ELSE LET t == Head(txs)
         IN  (IF t.type = BUY
                 THEN <<Flow(Rat(-(t.actual_amount + t.fee)), parse_date(t.date), FALSE)>>
              ELSE IF t.type = SELL
                 THEN <<Flow(Rat(t.actual_amount - t.fee), parse_date(t.date), FALSE)>>
              ELSE IF t.type = DIVIDEND /\ t.shares = 0
                 THEN <<Flow(Rat(t.actual_amount), parse_date(t.date), FALSE)>>
              ELSE <<>>) \o MappedFlows(Tail(txs))

-----------------------------------------------------------------------------
(* C25.  Cash-flow mapping: the series calculate_fund_xirr hands to the    *)
(* solver for a fund, held or sold out, holds before its terminal flow     *)
(* exactly one flow per Buy, -(actual_amount + fee), one per Sell,         *)
(* actual_amount - fee, and one per Dividend with shares = 0,              *)
(* actual_amount, in the order of the fund's records and each with the     *)
(* date of its record, and none for a reinvested Dividend.                 *)
C25_CashFlowMapping ==
    /\ \A c \in DOMAIN solver_input :
          TransactionFlows(solver_input[c]) = MappedFlows(fund_transactions[c])
    /\ \A c \in DOMAIN sold_input :
          TransactionFlows(sold_input[c]) = MappedFlows(fund_transactions[c])

-----------------------------------------------------------------------------
(* C26.  Flow sign convention: in a series handed to the solver, every     *)
(* Buy record with fee >= 0 has contributed one flow, that flow is <= 0    *)
(* and its magnitude is abs(actual_amount) + fee, whether the amount is    *)
(* stored negative or positive.                                            *)
HandedSeries ==
    { <<c, solver_input[c]>> : c \in DOMAIN solver_input }
        \cup { <<c, sold_input[c]>> : c \in DOMAIN sold_input }

\* the flows calculate_fund_xirr builds for the one record
FlowsOfRecord(t) == XirrLoop(<<t>>, <<>>, 0)[1]

C26_FlowSign ==
    \A h \in HandedSeries :
        \A k \in DOMAIN fund_transactions[h[1]] :
            LET t == fund_transactions[h[1]][k]
            IN  (t.type = BUY /\ t.fee >= 0) =>
                    /\ Len(FlowsOfRecord(t)) = 1
                    /\ FlowsOfRecord(t)[1] \in Range(h[2])
                    /\ RLeq(FlowsOfRecord(t)[1].cf, Rat(0))
                    /\ RAbs(FlowsOfRecord(t)[1].cf) = Rat(Abs(t.actual_amount) + t.fee)

-----------------------------------------------------------------------------
(* Vocabulary of the bisection property. *)

InBisection == xirr_frame.pc = "bisect"

\* the bracket the bisection started from
AcceptedBracket == IF xirr_frame.widened = 0 THEN NarrowBracket ELSE WideBracket

BracketWidth == BigRatSub(xirr_frame.rate_high, xirr_frame.rate_low)

PrevMid ==
    BigRat(BigAdd(BigMul(xirr_frame.prev_low.num, BigInt(FALSE, xirr_frame.prev_high.den)),
                  BigMul(xirr_frame.prev_high.num, BigInt(FALSE, xirr_frame.prev_low.den))),
           NatMulLimb(NatMul(xirr_frame.prev_low.den, xirr_frame.prev_high.den), 2, 0))

\* the bracket is the lower or the upper half of the bracket of the iteration before
HalfOfPrevious ==
    \/ /\ BigRatEq(xirr_frame.rate_low, xirr_frame.prev_low)
       /\ BigRatEq(xirr_frame.rate_high, PrevMid)
    \/ /\ BigRatEq(xirr_frame.rate_low, PrevMid)
       /\ BigRatEq(xirr_frame.rate_high, xirr_frame.prev_high)

InAcceptedBracket(rate) ==
    BigRatLeq(AcceptedBracket[1], rate) /\ BigRatLeq(rate, AcceptedBracket[2])

-----------------------------------------------------------------------------
(* C27.  Bisection invariant and termination: at the start of every        *)
(* iteration of the bisection rate_low < rate_high, npv_low and npv_high   *)
(* are the NPV at the two rates and their product is <= 0, the bracket is  *)
(* not narrower than the tolerance, and from the second iteration on it is *)
(* one half of the bracket of the iteration before; the loop makes at most *)
(* max_iter iterations, and a rate xirr returns lies in the bracket the    *)
(* bisection started from, [-0.99, 10.0] or [-0.9999, 1000.0].             *)
C27_Bisection ==
    /\ xirr_frame.iter <= max_iter
    /\ InBisection =>
          /\ BigSign(BracketWidth.num) > 0
          /\ BigRatEq(xirr_frame.npv_low, NpvAt(xirr_frame.rate_low))
          /\ BigRatEq(xirr_frame.npv_high, NpvAt(xirr_frame.rate_high))
          /\ BigSign(xirr_frame.npv_low.num) * BigSign(xirr_frame.npv_high.num) <= 0
          /\ ~AbsBelow(BracketWidth, TolInverse)
          /\ InAcceptedBracket(xirr_frame.rate_low)
          /\ InAcceptedBracket(xirr_frame.rate_high)
          /\ IF xirr_frame.iter = 0
             THEN /\ BigRatEq(xirr_frame.rate_low, AcceptedBracket[1])
                  /\ BigRatEq(xirr_frame.rate_high, AcceptedBracket[2])
             ELSE HalfOfPrevious
    /\ (XirrReturned /\ ~xirr_frame.result.none) => InAcceptedBracket(XirrResult)

\* the twentieth iteration starts, on a bracket that was widened
C27_Witness ==
    /\ InBisection
    /\ xirr_frame.iter = 20
    /\ xirr_frame.widened = 1

-----------------------------------------------------------------------------
(* C28.  Open/closed partition: the summary returned reports every code of *)
(* the transactions exactly once, in fund_performance when the code is in  *)
(* the holdings map after the replay and in sold_funds_xirr when it is     *)
(* not, whatever the price service answered.                               *)
TimesIn(entries, c) == Cardinality({ k \in DOMAIN entries : entries[k].code = c })

C28_OpenClosedPartition ==
    SummaryReturned =>
        \A c \in CodesOf(transactions) :
            IF c \in DOMAIN holdings
            THEN /\ TimesIn(summary.fund_performance, c) = 1
                 /\ TimesIn(summary.sold_funds_xirr, c) = 0
            ELSE /\ TimesIn(summary.fund_performance, c) = 0
                 /\ TimesIn(summary.sold_funds_xirr, c) = 1

\* a summary describes a list of records: its counts and totals are those the
\* replay of the list leaves
Describes(s, txs) ==
    /\ s.trade_count = Len(txs)
    /\ s.buy_count = ReplayAll(EmptyReplay, Sorted(txs)).buy_count
    /\ s.sell_count = ReplayAll(EmptyReplay, Sorted(txs)).sell_count
    /\ s.dividend_count = ReplayAll(EmptyReplay, Sorted(txs)).dividend_count
    /\ s.realized_profit = Round2(ReplayAll(EmptyReplay, Sorted(txs)).realized_profit)
    /\ s.total_fee = Round2(Rat(ReplayAll(EmptyReplay, Sorted(txs)).total_fee))

\* C29: summary freshness: the summary and the transactions of an answer to
\* GET /transactions describe the same records, also when a record was added,
\* updated or deleted after a summary of the same day was cached.
C29_SummaryFreshness ==
    response # <<>> => Describes(response.summary, response.transactions)

\* the webhook messages delivered for a condition
DeliveredFor(id) == delivered[id]

\* C30: one-shot notification: over any execution at most one webhook message
\* is delivered for a price-notification condition, and a condition is marked
\* sent only after a message for it was delivered, also when the monitor
\* thread and the endpoint check_now run check_price_notifications at once.
C30_OneShotNotification ==
    \A id \in DOMAIN delivered :
        /\ DeliveredFor(id) <= 1
        /\ price_notifications[id].notification_sent = 1 => DeliveredFor(id) >= 1


=============================================================================
